---------------------------- MODULE Spec2Model ----------------------------
(***************************************************************************)
(* A model of the Qera validator (the `v` schema system): schema objects   *)
(* live in a heap and are referred to by reference, the factory and the    *)
(* wrapper methods allocate new objects, the constraint builders mutate    *)
(* the receiver in place and return it, and parse / safeParse run the      *)
(* recursive _parse of the schema graph on a JavaScript value.             *)
(*                                                                         *)
(* JavaScript values are records tagged by `t`.  A string is a sequence of *)
(* one-character strings, so that its length and the regular expressions   *)
(* of the code can be computed.  A number is kept as twice its value       *)
(* (field n2), so that the non-integers k + 0.5 exist.  The optional       *)
(* `received` / `expected` fields of an issue are not modelled: no         *)
(* operation of the validator reads them.                                  *)
(***************************************************************************)
EXTENDS Integers, Sequences, FiniteSets, TLC

VARIABLES heap, last, nbuild, chain, exception, tree, functions, nformat,
          middlewares, handled, form, limiter, now, served

\* the schemas and the call made last
svars == <<heap, last, nbuild, chain>>
\* the QeraValidationError held, what its format() returned, the members
\* format() wrote on function objects, the number of format() calls
fvars == <<exception, tree, functions, nformat>>

\* the middlewares registered with use(), the request handleRequest
\* handled last with the calls made on its response
avars == <<middlewares, handled>>
\* the call of the body parser made last, with what it gave
bvars == <<form>>
\* the rate limiter set up with its store, the clock Date.now() reads, the
\* requests that reached the rate limiter with what it did with each
rvars == <<limiter, now, served>>

vars == <<heap, last, nbuild, chain, exception, tree, functions, nformat,
          middlewares, handled, form, limiter, now, served>>

---------------------------------------------------------------------------
(* Bounds of the model *)

\* construction calls (factory, wrapper and builder calls) in one run
MaxCalls == 3
\* largest argument of min / max / length
MaxArg == 2
\* issues of a QeraValidationError constructed directly
MaxIssues == 2
\* calls of QeraValidationError.format() in one run
MaxFormats == 2
\* middlewares registered with use()
MaxMiddlewares == 2
\* characters of a form-encoded text
MaxText == 5
\* requests that reach the rate limiter
MaxServed == 4
\* the last instant of the clock
MaxNow == 4

---------------------------------------------------------------------------
(* JavaScript values *)

Undef == [t |-> "undefined"]
Null == [t |-> "null"]
NaN == [t |-> "NaN"]
Bool(b) == [t |-> "boolean", b |-> b]
\* the number n2 / 2
Num2(n2) == [t |-> "number", n2 |-> n2]
Num(i) == Num2(2 * i)
Str(chars) == [t |-> "string", s |-> chars]
Arr(items) == [t |-> "array", items |-> items]
\* a plain object: its own enumerable properties in insertion order
Obj(fields) == [t |-> "object", fields |-> fields]
Fld(k, v) == [k |-> k, v |-> v]
\* a function value, as inherited from Object.prototype
Func(name) == [t |-> "function", name |-> name]

\* the typeof operator
TypeOf(v) ==
  CASE v.t = "undefined" -> "undefined"
    [] v.t = "null" -> "object"
    [] v.t = "NaN" -> "number"
    [] v.t = "array" -> "object"
    [] OTHER -> v.t

\* the property names every plain object inherits from Object.prototype
\* (the one the model's key universe contains)
ProtoKeys == {"constructor"}

OwnKeys(fields) == {fields[i].k : i \in 1..Len(fields)}

OwnValue(fields, key) ==
  (CHOOSE i \in 1..Len(fields) : fields[i].k = key) \* keys are unique

\* data[key] on a plain object: the own property, else the inherited one,
\* else undefined
GetProp(fields, key) ==
  IF key \in OwnKeys(fields) THEN fields[OwnValue(fields, key)].v
  ELSE IF key \in ProtoKeys THEN Func("Object")
  ELSE Undef

\* obj[key] = v on a plain object: an own key keeps its place, a new key
\* is appended
SetProp(fields, key, v) ==
  IF key \in OwnKeys(fields)
  THEN [fields EXCEPT ![OwnValue(fields, key)] = Fld(key, v)]
  ELSE Append(fields, Fld(key, v))

\* `key in obj` on a plain object with the given own keys
HasIn(ownKeys, key) == key \in ownKeys \/ key \in ProtoKeys

RECURSIVE Join(_)
\* the characters of a model string as one TLA+ string
Join(chars) == IF chars = <<>> THEN "" ELSE Head(chars) \o Join(Tail(chars))

\* String(n) of the number n2 / 2
NumStr(n2) ==
  IF n2 % 2 = 0 THEN ToString(n2 \div 2)
  ELSE IF n2 > 0 THEN ToString(n2 \div 2) \o ".5"
  ELSE "-" \o ToString((0 - n2) \div 2) \o ".5"

RECURSIVE JsString(_)
RECURSIVE JoinItems(_)
\* Array.prototype.join(","): null and undefined give the empty string
JoinItems(items) ==
  IF items = <<>> THEN ""
  ELSE (IF Head(items).t \in {"undefined", "null"} THEN "" ELSE JsString(Head(items)))
       \o (IF Len(items) > 1 THEN "," \o JoinItems(Tail(items)) ELSE "")

\* the string a template literal `${v}` gives
JsString(v) ==
  CASE v.t = "undefined" -> "undefined"
    [] v.t = "null" -> "null"
    [] v.t = "NaN" -> "NaN"
    [] v.t = "boolean" -> IF v.b THEN "true" ELSE "false"
    [] v.t = "number" -> NumStr(v.n2)
    [] v.t = "string" -> Join(v.s)
    [] v.t = "array" -> JoinItems(v.items)
    [] v.t = "object" -> "[object Object]"
    [] OTHER -> "function " \o v.name \o "() { [native code] }"

---------------------------------------------------------------------------
(* The string checks of QeraStringSchema *)

UpperChars == {"A", "B", "C", "D", "E", "F"}
LowerChars == {"a", "b", "c", "d", "e", "f"}
DigitChars == {"0", "1", "2", "3", "4", "5", "6", "7", "8", "9"}
HexChars == DigitChars \cup {"a", "b", "c", "d", "e", "f"} \cup UpperChars
\* \s of a regular expression, within the model's alphabet
SpaceChars == {" "}

\* [^\s@]+
NoSpaceAt(chars) ==
  /\ chars # <<>>
  /\ \A i \in 1..Len(chars) : chars[i] \notin SpaceChars \cup {"@"}

\* /^[^\s@]+@[^\s@]+\.[^\s@]+$/.test(value)
isEmail(chars) ==
  \E i \in 1..Len(chars) : \E j \in 1..Len(chars) :
    /\ i < j
    /\ chars[i] = "@"
    /\ chars[j] = "."
    /\ NoSpaceAt(SubSeq(chars, 1, i - 1))
    /\ NoSpaceAt(SubSeq(chars, i + 1, j - 1))
    /\ NoSpaceAt(SubSeq(chars, j + 1, Len(chars)))

\* /^[0-9a-f]{8}-[0-9a-f]{4}-[1-5][0-9a-f]{3}-[89ab][0-9a-f]{3}-[0-9a-f]{12}$/i
isUuid(chars) ==
  /\ Len(chars) = 36
  /\ \A i \in 1..36 :
       CASE i \in {9, 14, 19, 24} -> chars[i] = "-"
         [] i = 15 -> chars[i] \in {"1", "2", "3", "4", "5"}
         [] i = 20 -> chars[i] \in {"8", "9", "a", "b", "A", "B"}
         [] OTHER -> chars[i] \in HexChars

RECURSIVE TrimLeft(_)
TrimLeft(chars) ==
  IF chars # <<>> /\ Head(chars) \in SpaceChars THEN TrimLeft(Tail(chars)) ELSE chars

RECURSIVE TrimRight(_)
TrimRight(chars) ==
  IF chars # <<>> /\ chars[Len(chars)] \in SpaceChars
  THEN TrimRight(SubSeq(chars, 1, Len(chars) - 1))
  ELSE chars

\* new URL(value) does not throw.  Without a base, the URL parser strips
\* leading and trailing spaces and then needs a scheme: a letter, then
\* letters, digits, "+", "-" or ".", up to a ":".  What follows a scheme that
\* is not a special one (http, https, ws, wss, ftp, file: none can be
\* written in the model's alphabet) is an opaque path and always parses.
isUrl(chars) ==
  LET u == TrimRight(TrimLeft(chars))
      SchemeStart == UpperChars \cup LowerChars
      SchemeChar == SchemeStart \cup DigitChars \cup {"+", "-", "."}
  IN \E c \in 1..Len(u) :
       /\ u[c] = ":"
       /\ c > 1
       /\ u[1] \in SchemeStart
       /\ \A i \in 2..(c - 1) : u[i] \in SchemeChar
       /\ \A i \in 1..(c - 1) : u[i] # ":"

\* The RegExp objects passed to regex(): /^[A-Z]+$/ and /[0-9]/, neither
\* with the g or y flag (test() of such a RegExp keeps no lastIndex)
ReUpper == [t |-> "regexp", src |-> "^[A-Z]+$"]
ReDigit == [t |-> "regexp", src |-> "[0-9]"]
Patterns == {ReUpper, ReDigit}

\* The RegExp object /[0-9]/g as the literal creates it: with the g flag
\* test() searches from lastIndex and writes lastIndex
ReDigitG == [t |-> "regexp", src |-> "[0-9]", flags |-> "g", lastIndex |-> 0]
GlobalPatterns == {ReDigitG}

\* the RegExp object has the g flag
IsGlobal(re) == re.t = "regexp" /\ "flags" \in DOMAIN re

\* pattern.test(value)
RegexTest(re, chars) ==
  IF re = ReUpper
  THEN chars # <<>> /\ \A i \in 1..Len(chars) : chars[i] \in UpperChars
  ELSE IF IsGlobal(re)
  THEN \E i \in (re.lastIndex + 1)..Len(chars) : chars[i] \in DigitChars
  ELSE \E i \in 1..Len(chars) : chars[i] \in DigitChars

\* the lastIndex pattern.test(value) leaves in a RegExp with the g flag: the
\* end of the first match at or after lastIndex, 0 when there is none
LastIndexAfter(re, chars) ==
  IF RegexTest(re, chars)
  THEN CHOOSE i \in (re.lastIndex + 1)..Len(chars) :
         /\ chars[i] \in DigitChars
         /\ \A j \in (re.lastIndex + 1)..(i - 1) : chars[j] \notin DigitChars
  ELSE 0

\* the truthiness of a value held in an optional field
Truthy(v) ==
  CASE v.t \in {"undefined", "null", "NaN"} -> FALSE
    [] v.t = "boolean" -> v.b
    [] v.t = "number" -> v.n2 # 0
    [] v.t = "string" -> v.s # <<>>
    [] OTHER -> TRUE

---------------------------------------------------------------------------
(* Issues, results and exceptions *)

\* ValidationError: one issue
Issue(path, message, code) == [path |-> path, message |-> message, code |-> code]

\* What a call of _parse does: it returns a ValidationResult or it throws.
\* `calls` lists the user callbacks the call invoked, in order, each with
\* whether it threw.
Ok(data, calls) == [thrown |-> FALSE, success |-> TRUE, data |-> data, calls |-> calls]

\* `format` names the closure stored in error.format
Fail(issues, format, calls) ==
  [thrown |-> FALSE, success |-> FALSE, issues |-> issues, format |-> format,
   calls |-> calls]

Throw(exc, calls) == [thrown |-> TRUE, exc |-> exc, calls |-> calls]

\* an Error thrown by a callback or by the runtime
Error(name, message) == [isError |-> TRUE, name |-> name, message |-> message]
\* a thrown value that is not an Error (throw "boom")
Thrown(v) == [isError |-> FALSE, value |-> v]

\* the closure () => this.formatError(path, message)
formatErrorAt(path, message) == [f |-> "formatError", path |-> path, message |-> message]
\* the closure () => this.formatMultipleErrors(path, issues) of String and Number
formatMultipleAt(path) == [f |-> "formatMultipleErrors(path, issues)", path |-> path]
\* the closure () => this.formatMultipleErrors(issues) of Array and Object
formatIssues == [f |-> "formatMultipleErrors(issues)"]

\* a failure with the one issue and the formatError closure every schema
\* class builds for it
Fail1(path, message, code) ==
  Fail(<<Issue(path, message, code)>>, formatErrorAt(path, message), <<>>)

SeqIf(cond, x) == IF cond THEN <<x>> ELSE <<>>

---------------------------------------------------------------------------
(* User callbacks: the predicates given to refine and the mappers given to *)
(* transform.  A callback returns a value or throws.                       *)

Returns(v) == [thrown |-> FALSE, value |-> v]
Raises(exc) == [thrown |-> TRUE, exc |-> exc]

\* val.length
LengthOf(v) ==
  CASE v.t \in {"undefined", "null"} ->
         Raises(Error("TypeError",
                      "Cannot read properties of " \o v.t \o " (reading 'length')"))
    [] v.t = "string" -> Returns(Num(Len(v.s)))
    [] v.t = "array" -> Returns(Num(Len(v.items)))
    [] v.t = "function" -> Returns(Num(1))
    [] OTHER -> Returns(Undef)

\* one invocation of a callback, as `calls` records it
Call(fn, outcome) == [fn |-> fn, threw |-> outcome.thrown]

\*   nonEmpty: val => val.length > 0
\*   throws:   () => { throw 'boom' }
Predicates == {"nonEmpty", "throws"}

ApplyPredicate(p, v) ==
  CASE p = "nonEmpty" ->
         LET l == LengthOf(v)
         IN IF l.thrown THEN l
            ELSE Returns(Bool(l.value.t = "number" /\ l.value.n2 > 0))
    [] OTHER -> Raises(Thrown(Str(<<"b", "o", "o", "m">>)))

\*   length:       val => val.length
\*   throwsError:  () => { throw new Error('boom') }
\*   throwsString: () => { throw 'boom' }
Transformers == {"length", "throwsError", "throwsString"}

ApplyTransformer(f, v) ==
  CASE f = "length" -> LengthOf(v)
    [] f = "throwsError" -> Raises(Error("Error", "boom"))
    [] OTHER -> Raises(Thrown(Str(<<"b", "o", "o", "m">>)))

---------------------------------------------------------------------------
(* _parse of every schema class.  h is the heap, o the schema object.      *)

RECURSIVE _parse(_, _, _, _)

\* x < m and x > m for a length or number x (as twice its value) and a
\* configured bound m, which is a number or NaN
Below(x2, m) == m.t = "number" /\ x2 < m.n2
Above(x2, m) == m.t = "number" /\ x2 > m.n2

\* a string _parse that returns at the first violated constraint
QeraStringSchema_parse_first(o, data, path) ==
  IF TypeOf(data) # "string"
  THEN Fail1(path, "Expected string, received " \o TypeOf(data), "invalid_type")
  ELSE IF o._min # Undef /\ Below(2 * Len(data.s), o._min)
  THEN Fail1(path, "String must contain at least " \o JsString(o._min)
                   \o " character(s)", "too_small")
  ELSE IF o._max # Undef /\ Above(2 * Len(data.s), o._max)
  THEN Fail1(path, "String must contain at most " \o JsString(o._max)
                   \o " character(s)", "too_big")
  ELSE IF Truthy(o._pattern) /\ ~RegexTest(o._pattern, data.s)
  THEN Fail1(path, "Invalid format", "invalid_string")
  ELSE IF o._email /\ ~isEmail(data.s)
  THEN Fail1(path, "Invalid email", "invalid_string")
  ELSE IF o._url /\ ~isUrl(data.s)
  THEN Fail1(path, "Invalid url", "invalid_string")
  ELSE IF o._uuid /\ ~isUuid(data.s)
  THEN Fail1(path, "Invalid uuid", "invalid_string")
  ELSE Ok(data, <<>>)

QeraStringSchema_parse(o, data, path) ==
  IF TypeOf(data) # "string"
  THEN Fail1(path, "Expected string, received " \o TypeOf(data), "invalid_type")
  ELSE
    LET issues ==
          SeqIf(o._min # Undef /\ Below(2 * Len(data.s), o._min),
                Issue(path, "String must contain at least " \o JsString(o._min)
                            \o " character(s)", "too_small"))
          \o SeqIf(o._max # Undef /\ Above(2 * Len(data.s), o._max),
                Issue(path, "String must contain at most " \o JsString(o._max)
                            \o " character(s)", "too_big"))
          \o SeqIf(Truthy(o._pattern) /\ ~RegexTest(o._pattern, data.s),
                Issue(path, "Invalid format", "invalid_string"))
          \o SeqIf(o._email /\ ~isEmail(data.s),
                Issue(path, "Invalid email", "invalid_string"))
          \o SeqIf(o._url /\ ~isUrl(data.s),
                Issue(path, "Invalid url", "invalid_string"))
          \o SeqIf(o._uuid /\ ~isUuid(data.s),
                Issue(path, "Invalid uuid", "invalid_string"))
    IN IF Len(issues) > 0
       THEN Fail(issues, formatMultipleAt(path), <<>>)
       ELSE Ok(data, <<>>)

QeraNumberSchema_parse(o, data, path) ==
  IF TypeOf(data) # "number" \/ data = NaN
  THEN Fail1(path, "Expected number, received " \o TypeOf(data), "invalid_type")
  ELSE
    LET issues ==
          SeqIf(o._int /\ data.n2 % 2 # 0,
                Issue(path, "Expected integer, received float", "invalid_type"))
          \o SeqIf(o._min # Undef /\ Below(data.n2, o._min),
                Issue(path, "Number must be greater than or equal to "
                            \o JsString(o._min), "too_small"))
          \o SeqIf(o._max # Undef /\ Above(data.n2, o._max),
                Issue(path, "Number must be less than or equal to "
                            \o JsString(o._max), "too_big"))
          \o SeqIf(o._positive /\ data.n2 <= 0,
                Issue(path, "Number must be positive", "too_small"))
          \o SeqIf(o._negative /\ data.n2 >= 0,
                Issue(path, "Number must be negative", "too_big"))
          \o SeqIf(o._nonnegative /\ data.n2 < 0,
                Issue(path, "Number must be non-negative", "too_small"))
    IN IF Len(issues) > 0
       THEN Fail(issues, formatMultipleAt(path), <<>>)
       ELSE Ok(data, <<>>)

QeraBooleanSchema_parse(o, data, path) ==
  IF TypeOf(data) # "boolean"
  THEN Fail1(path, "Expected boolean, received " \o TypeOf(data), "invalid_type")
  ELSE Ok(data, <<>>)

\* an element parsed at the array's own path
ElementParse_unindexed(h, element, item, path, i) ==
  IF element = 0
  THEN Throw(Error("TypeError",
                   "Cannot read properties of undefined (reading '_parse')"), <<>>)
  ELSE _parse(h, element, item, path)

\* this.element._parse(data[i], [...path, i.toString()]); element 0 is an
\* `undefined` passed to v.array()
ElementParse(h, element, item, path, i) ==
  IF element = 0
  THEN Throw(Error("TypeError",
                   "Cannot read properties of undefined (reading '_parse')"), <<>>)
  ELSE _parse(h, element, item, Append(path, ToString(i)))

RECURSIVE ArrayLoop(_, _, _, _, _, _)
\* the element loop from index i (0-based) on; acc holds the issues, the
\* parsed elements and the callbacks invoked so far
ArrayLoop(h, element, items, path, i, acc) ==
  IF i >= Len(items) THEN acc
  ELSE
    LET elementResult == ElementParse(h, element, items[i + 1], path, i)
        calls == acc.calls \o elementResult.calls
    IN IF elementResult.thrown THEN Throw(elementResult.exc, calls)
       ELSE IF ~elementResult.success
       THEN ArrayLoop(h, element, items, path, i + 1,
                      [acc EXCEPT !.issues = @ \o elementResult.issues,
                                  !.calls = calls])
       ELSE ArrayLoop(h, element, items, path, i + 1,
                      [acc EXCEPT !.parsedData = Append(@, elementResult.data),
                                  !.calls = calls])

\* the two cardinality checks of QeraArraySchema._parse
ArrayCardinality(o, n, path) ==
  SeqIf(o._min # Undef /\ Below(2 * n, o._min),
        Issue(path, "Array must contain at least " \o JsString(o._min)
                    \o " element(s)", "too_small"))
  \o SeqIf(o._max # Undef /\ Above(2 * n, o._max),
        Issue(path, "Array must contain at most " \o JsString(o._max)
                    \o " element(s)", "too_big"))

QeraArraySchema_parse(h, o, data, path) ==
  IF data.t # "array"
  THEN Fail1(path, "Expected array, received " \o TypeOf(data), "invalid_type")
  ELSE
    LET done == ArrayLoop(h, o.element, data.items, path, 0,
                          [thrown |-> FALSE,
                           issues |-> ArrayCardinality(o, Len(data.items), path),
                           parsedData |-> <<>>, calls |-> <<>>])
    IN IF done.thrown THEN done
       ELSE IF Len(done.issues) > 0
       THEN Fail(done.issues, formatIssues, done.calls)
       ELSE Ok(Arr(done.parsedData), done.calls)

RECURSIVE ShapeLoop(_, _, _, _, _, _)
\* the loop over Object.entries(this.shape) from entry i on
ShapeLoop(h, shape, data, path, i, acc) ==
  IF i > Len(shape) THEN acc
  ELSE
    LET key == shape[i].k
        fieldResult == _parse(h, shape[i].ref, GetProp(data.fields, key),
                              Append(path, key))
        calls == acc.calls \o fieldResult.calls
    IN IF fieldResult.thrown THEN Throw(fieldResult.exc, calls)
       ELSE IF ~fieldResult.success
       THEN ShapeLoop(h, shape, data, path, i + 1,
                      [acc EXCEPT !.issues = @ \o fieldResult.issues,
                                  !.calls = calls])
       ELSE ShapeLoop(h, shape, data, path, i + 1,
                      [acc EXCEPT !.parsedData = SetProp(@, key, fieldResult.data),
                                  !.calls = calls])

RECURSIVE UnknownKeys(_, _, _, _)
\* the strict-mode loop over Object.keys(data) from key i on
UnknownKeys(shapeKeys, fields, path, i) ==
  IF i > Len(fields) THEN <<>>
  ELSE SeqIf(~HasIn(shapeKeys, fields[i].k),
             Issue(Append(path, fields[i].k),
                   "Unrecognized key(s) in object: '" \o fields[i].k \o "'",
                   "unrecognized_keys"))
       \o UnknownKeys(shapeKeys, fields, path, i + 1)

\* the description of a value that is not a plain object
ReceivedObject(data) ==
  IF data = Null THEN "null" ELSE IF data.t = "array" THEN "array" ELSE TypeOf(data)

QeraObjectSchema_parse(h, o, data, path) ==
  IF data.t # "object"
  THEN Fail1(path, "Expected object, received " \o ReceivedObject(data), "invalid_type")
  ELSE
    LET known == ShapeLoop(h, o.shape, data, path, 1,
                           [thrown |-> FALSE, issues |-> <<>>,
                            parsedData |-> IF o._passthrough THEN data.fields ELSE <<>>,
                            calls |-> <<>>])
        issues == known.issues
                  \o (IF o._strict
                      THEN UnknownKeys(OwnKeys(o.shape), data.fields, path, 1)
                      ELSE <<>>)
    IN IF known.thrown THEN known
       ELSE IF Len(issues) > 0
       THEN Fail(issues, formatIssues, known.calls)
       ELSE Ok(Obj(known.parsedData), known.calls)

\* an optional that also takes null for an absent value
QeraOptionalSchema_parse_nullish(h, o, data, path) ==
  IF data \in {Undef, Null} THEN Ok(Undef, <<>>)
  ELSE _parse(h, o.innerSchema, data, path)

QeraOptionalSchema_parse(h, o, data, path) ==
  IF data = Undef THEN Ok(Undef, <<>>) ELSE _parse(h, o.innerSchema, data, path)

\* a nullable that also takes undefined for null
QeraNullableSchema_parse_nullish(h, o, data, path) ==
  IF data \in {Undef, Null} THEN Ok(Null, <<>>)
  ELSE _parse(h, o.innerSchema, data, path)

QeraNullableSchema_parse(h, o, data, path) ==
  IF data = Null THEN Ok(Null, <<>>) ELSE _parse(h, o.innerSchema, data, path)

\* a default that runs the inner schema on the default value
QeraDefaultSchema_parse_revalidated(h, o, data, path) ==
  _parse(h, o.innerSchema, IF data = Undef THEN o.defaultValue ELSE data, path)

QeraDefaultSchema_parse(h, o, data, path) ==
  IF data = Undef THEN Ok(o.defaultValue, <<>>) ELSE _parse(h, o.innerSchema, data, path)

\* a refinement that calls its predicate whatever the inner schema returned
QeraRefinementSchema_parse_eager(h, o, data, path) ==
  LET result == _parse(h, o.innerSchema, data, path)
      verdict == ApplyPredicate(o.predicate, IF ~result.thrown /\ result.success
                                             THEN result.data ELSE data)
      calls == Append(result.calls, Call(o.predicate, verdict))
  IN IF result.thrown THEN result
     ELSE IF ~result.success THEN [result EXCEPT !.calls = calls]
     ELSE IF verdict.thrown THEN Throw(verdict.exc, calls)
     ELSE IF ~Truthy(verdict.value)
     THEN Fail(<<Issue(path, o.message, "custom")>>,
               formatErrorAt(path, o.message), calls)
     ELSE [result EXCEPT !.calls = calls]

QeraRefinementSchema_parse(h, o, data, path) ==
  LET result == _parse(h, o.innerSchema, data, path)
  IN IF result.thrown \/ ~result.success THEN result
     ELSE
       LET verdict == ApplyPredicate(o.predicate, result.data)
           calls == Append(result.calls, Call(o.predicate, verdict))
       IN IF verdict.thrown THEN Throw(verdict.exc, calls)
          ELSE IF ~Truthy(verdict.value)
          THEN Fail(<<Issue(path, o.message, "custom")>>,
                    formatErrorAt(path, o.message), calls)
          ELSE [result EXCEPT !.calls = calls]

RECURSIVE UnionLoop(_, _, _, _, _, _)
\* the loop over this.schemas from alternative i on
UnionLoop(h, schemas, data, path, i, calls) ==
  IF i > Len(schemas)
  THEN Fail(<<Issue(path, "Invalid input", "invalid_union")>>,
            formatErrorAt(path, "Invalid input"), calls)
  ELSE
    LET result == _parse(h, schemas[i], data, path)
        seen == calls \o result.calls
    IN IF result.thrown \/ result.success THEN [result EXCEPT !.calls = seen]
       ELSE UnionLoop(h, schemas, data, path, i + 1, seen)

QeraUnionSchema_parse(h, o, data, path) == UnionLoop(h, o.schemas, data, path, 1, <<>>)

\* JSON.stringify of a string, number or boolean
JsonStringify(v) == IF v.t = "string" THEN "\"" \o Join(v.s) \o "\"" ELSE JsString(v)

QeraLiteralSchema_parse(o, data, path) ==
  IF data # o.value \/ data = NaN
  THEN Fail1(path, "Invalid literal value, expected " \o JsonStringify(o.value),
             "invalid_literal")
  ELSE Ok(data, <<>>)

RECURSIVE QuotedValues(_)
\* this.values.map(v => `'${v}'`).join(' | ')
QuotedValues(values) ==
  IF values = <<>> THEN ""
  ELSE "'" \o JsString(Head(values)) \o "'"
       \o (IF Len(values) > 1 THEN " | " \o QuotedValues(Tail(values)) ELSE "")

QeraEnumSchema_parse(o, data, path) ==
  IF ~\E i \in 1..Len(o.values) : o.values[i] = data
  THEN Fail1(path, "Invalid enum value. Expected " \o QuotedValues(o.values)
                   \o ", received '" \o JsString(data) \o "'", "invalid_enum_value")
  ELSE Ok(data, <<>>)

\* a transform that passes the whole inner result on, with a data member
QeraTransformSchema_parse_both(h, o, data, path) ==
  LET result == _parse(h, o.innerSchema, data, path)
  IN IF result.thrown THEN result
     ELSE IF ~result.success
     THEN [thrown |-> FALSE, success |-> FALSE, issues |-> result.issues,
           format |-> result.format, calls |-> result.calls, data |-> data]
     ELSE
       LET transformed == ApplyTransformer(o.transformer, result.data)
           calls == Append(result.calls, Call(o.transformer, transformed))
       IN IF ~transformed.thrown THEN Ok(transformed.value, calls)
          ELSE Fail(<<Issue(path, "Transformation failed", "custom")>>,
                    formatErrorAt(path, "Transformation failed"), calls)

\* a transform that calls its mapper and returns the unmapped value
QeraTransformSchema_parse_unmapped(h, o, data, path) ==
  LET result == _parse(h, o.innerSchema, data, path)
  IN IF result.thrown THEN result
     ELSE IF ~result.success THEN Fail(result.issues, result.format, result.calls)
     ELSE
       LET transformed == ApplyTransformer(o.transformer, result.data)
           calls == Append(result.calls, Call(o.transformer, transformed))
       IN IF ~transformed.thrown THEN Ok(result.data, calls)
          ELSE
            LET errorMessage == IF transformed.exc.isError
                                THEN transformed.exc.message
                                ELSE "Transformation failed"
            IN Fail(<<Issue(path, errorMessage, "custom")>>,
                    formatErrorAt(path, errorMessage), calls)

QeraTransformSchema_parse(h, o, data, path) ==
  LET result == _parse(h, o.innerSchema, data, path)
  IN IF result.thrown THEN result
     ELSE IF ~result.success THEN Fail(result.issues, result.format, result.calls)
     ELSE
       LET transformed == ApplyTransformer(o.transformer, result.data)
           calls == Append(result.calls, Call(o.transformer, transformed))
       IN IF ~transformed.thrown THEN Ok(transformed.value, calls)
          ELSE
            LET errorMessage == IF transformed.exc.isError
                                THEN transformed.exc.message
                                ELSE "Transformation failed"
            IN Fail(<<Issue(path, errorMessage, "custom")>>,
                    formatErrorAt(path, errorMessage), calls)

QeraAnySchema_parse(data) == Ok(data, <<>>)

QeraUnknownSchema_parse(data) == Ok(data, <<>>)

QeraVoidSchema_parse(data, path) ==
  IF data # Undef
  THEN Fail1(path, "Expected void, received " \o TypeOf(data), "invalid_type")
  ELSE Ok(Undef, <<>>)

QeraNullSchema_parse(data, path) ==
  IF data # Null
  THEN Fail1(path, "Expected null, received " \o TypeOf(data), "invalid_type")
  ELSE Ok(data, <<>>)

QeraUndefinedSchema_parse(data, path) ==
  IF data # Undef
  THEN Fail1(path, "Expected undefined, received " \o TypeOf(data), "invalid_type")
  ELSE Ok(data, <<>>)

\* schema._parse(data, path): the method of the class of heap object r
_parse(h, r, data, path) ==
  LET o == h[r]
  IN CASE o.kind = "string" -> QeraStringSchema_parse(o, data, path)
       [] o.kind = "number" -> QeraNumberSchema_parse(o, data, path)
       [] o.kind = "boolean" -> QeraBooleanSchema_parse(o, data, path)
       [] o.kind = "array" -> QeraArraySchema_parse(h, o, data, path)
       [] o.kind = "object" -> QeraObjectSchema_parse(h, o, data, path)
       [] o.kind = "optional" -> QeraOptionalSchema_parse(h, o, data, path)
       [] o.kind = "nullable" -> QeraNullableSchema_parse(h, o, data, path)
       [] o.kind = "default" -> QeraDefaultSchema_parse(h, o, data, path)
       [] o.kind = "refinement" -> QeraRefinementSchema_parse(h, o, data, path)
       [] o.kind = "union" -> QeraUnionSchema_parse(h, o, data, path)
       [] o.kind = "literal" -> QeraLiteralSchema_parse(o, data, path)
       [] o.kind = "enum" -> QeraEnumSchema_parse(o, data, path)
       [] o.kind = "transform" -> QeraTransformSchema_parse(h, o, data, path)
       [] o.kind = "any" -> QeraAnySchema_parse(data)
       [] o.kind = "unknown" -> QeraUnknownSchema_parse(data)
       [] o.kind = "void" -> QeraVoidSchema_parse(data, path)
       [] o.kind = "null" -> QeraNullSchema_parse(data, path)
       [] OTHER -> QeraUndefinedSchema_parse(data, path)

---------------------------------------------------------------------------
(* parse and safeParse of QeraSchema.  A method call returns or raises.    *)

Returned(v, calls) == [raised |-> FALSE, value |-> v, calls |-> calls]
Raised(exc, calls) == [raised |-> TRUE, exc |-> exc, calls |-> calls]

\* new QeraValidationError(issues)
QeraValidationError(issues) ==
  [isError |-> TRUE, name |-> "QeraValidationError", message |-> "Validation failed",
   issues |-> issues]

\* the ValidationResult object a _parse that returned hands back
ResultOf(result) ==
  IF result.success
  THEN [success |-> TRUE, data |-> result.data]
  ELSE [success |-> FALSE,
        error |-> [issues |-> result.issues, format |-> result.format]]

\* parse without its check of result.success
parse_unchecked(h, r, data) ==
  LET result == _parse(h, r, data, <<>>)
  IN IF result.thrown THEN Raised(result.exc, result.calls)
     ELSE Returned(IF result.success THEN result.data ELSE Undef, result.calls)

parse(h, r, data) ==
  LET result == _parse(h, r, data, <<>>)
  IN IF result.thrown THEN Raised(result.exc, result.calls)
     ELSE IF ~result.success
     THEN Raised(QeraValidationError(result.issues), result.calls)
     ELSE Returned(result.data, result.calls)

\* safeParse without its try / catch
safeParse_uncaught(h, r, data) ==
  LET result == _parse(h, r, data, <<>>)
  IN IF result.thrown THEN Raised(result.exc, result.calls)
     ELSE Returned(ResultOf(result), result.calls)

safeParse(h, r, data) ==
  LET result == _parse(h, r, data, <<>>)
  IN IF ~result.thrown THEN Returned(ResultOf(result), result.calls)
     ELSE
       LET errorMessage == IF result.exc.isError THEN result.exc.message
                           ELSE "Unknown error"
       IN Returned([success |-> FALSE,
                    error |-> [issues |-> <<Issue(<<>>, errorMessage, "unknown_error")>>,
                               format |-> [f |-> "unknownError",
                                           message |-> errorMessage]]],
                   result.calls)

---------------------------------------------------------------------------
(* The error trees of format().  A tree node is a plain object whose       *)
(* members are child nodes and, under "_errors", an array of messages.     *)
(* A walk that follows an inherited member leaves the tree and goes on in  *)
(* a function object (Object, the inherited `constructor`); fn holds the   *)
(* members written on these function objects, by function name.  "_errors" *)
(* is not among the path segments of the model.                            *)

\* no member written on a function object yet
NoMembers == [Object |-> <<>>, Function |-> <<>>]

\* node[key], node a plain object or a function
GetMember(node, fn, key) ==
  IF node.t = "object" THEN GetProp(node.fields, key)
  ELSE IF key \in OwnKeys(fn[node.name])
  THEN fn[node.name][OwnValue(fn[node.name], key)].v
  ELSE IF key \in ProtoKeys THEN Func("Function")
  ELSE Undef

\* node[key] = v: the node and the function members after the assignment
SetMember(node, fn, key, v) ==
  IF node.t = "object"
  THEN [node |-> Obj(SetProp(node.fields, key, v)), fn |-> fn]
  ELSE [node |-> node, fn |-> [fn EXCEPT ![node.name] = SetProp(@, key, v)]]

\* what the walk of one issue leaves: whether it threw, the node walked and
\* the function members
Walked(thrown, node, fn) == [thrown |-> thrown, node |-> node, fn |-> fn]

\* the exception of undefined.push(...)
PushOfUndefined ==
  Error("TypeError", "Cannot read properties of undefined (reading 'push')")

RECURSIVE Place(_, _, _, _, _)
\* the inner loop of format() from segment i (1-based) of the path on, with
\* `current` the node given
Place(node, fn, path, i, message) ==
  LET key == path[i]
      member == GetMember(node, fn, key)
  IN IF i = Len(path)
     THEN
       \* if (!current[key]) current[key] = { _errors: [] };
       \* current[key]._errors.push(issue.message);
       LET target == IF Truthy(member) THEN member
                     ELSE Obj(<<Fld("_errors", Arr(<<>>))>>)
           created == IF Truthy(member) THEN Walked(FALSE, node, fn)
                      ELSE Walked(FALSE, SetMember(node, fn, key, target).node,
                                  SetMember(node, fn, key, target).fn)
           errors == GetMember(target, created.fn, "_errors")
       IN IF errors.t # "array" THEN Walked(TRUE, created.node, created.fn)
          ELSE
            LET pushed == SetMember(target, created.fn, "_errors",
                                    Arr(Append(errors.items, message)))
            IN IF target.t = "object"
               THEN Walked(FALSE, SetMember(created.node, pushed.fn, key, pushed.node).node,
                           SetMember(created.node, pushed.fn, key, pushed.node).fn)
               ELSE Walked(FALSE, created.node, pushed.fn)
     ELSE
       \* if (!current[key]) current[key] = {};  current = current[key];
       LET next == IF Truthy(member) THEN member ELSE Obj(<<>>)
           below == Place(next, fn, path, i + 1, message)
       IN IF next.t = "object"
          THEN Walked(below.thrown, SetMember(node, below.fn, key, below.node).node,
                      SetMember(node, below.fn, key, below.node).fn)
          ELSE Walked(below.thrown, node, below.fn)

RECURSIVE FormatLoop(_, _, _, _)
\* the loop over the issues from issue i on
FormatLoop(issues, i, formatted, fn) ==
  IF i > Len(issues) THEN Walked(FALSE, formatted, fn)
  ELSE IF issues[i].path = <<>>
  THEN
    \* if (!formatted._errors) formatted._errors = [];
    \* formatted._errors.push(issue.message);
    LET errors == GetProp(formatted.fields, "_errors")
        list == IF Truthy(errors) THEN errors ELSE Arr(<<>>)
    IN FormatLoop(issues, i + 1,
                  Obj(SetProp(formatted.fields, "_errors",
                              Arr(Append(list.items, issues[i].message)))), fn)
  ELSE
    LET placed == Place(formatted, fn, issues[i].path, 1, issues[i].message)
    IN IF placed.thrown THEN placed
       ELSE FormatLoop(issues, i + 1, placed.node, placed.fn)

\* what a call of format() gives: the tree returned or the exception raised,
\* and the function members after the call
Formatted(walked) ==
  IF walked.thrown
  THEN [raised |-> TRUE, exc |-> PushOfUndefined, fn |-> walked.fn]
  ELSE [raised |-> FALSE, value |-> walked.node, fn |-> walked.fn]

\* QeraValidationError.format()
QeraValidationError_format(issues, fn) ==
  Formatted(FormatLoop(issues, 1, Obj(<<>>), fn))

\* formatMultipleErrors(issues) of the Array and the Object schema
formatMultipleErrors(issues, fn) ==
  Formatted(FormatLoop(issues, 1, Obj(<<>>), fn))

RECURSIVE NestAt(_, _)
\* the object that holds the leaf under the path: every segment is assigned
\* a new object, no member is read before it is assigned
NestAt(path, leaf) ==
  IF path = <<>> THEN leaf
  ELSE Obj(<<Fld(Head(path), NestAt(Tail(path), leaf))>>)

\* formatError(path, message) of every schema class
formatError(path, message) == NestAt(path, Obj(<<Fld("_errors", Arr(<<message>>))>>))

\* a formatMultipleErrors(path, issues) that keeps the first message only
formatMultipleErrorsAt_first(path, issues) ==
  NestAt(path, Obj(<<Fld("_errors", Arr(<<issues[1].message>>))>>))

\* formatMultipleErrors(path, issues) of the String and the Number schema
formatMultipleErrorsAt(path, issues) ==
  NestAt(path, Obj(<<Fld("_errors",
                         Arr([i \in 1..Len(issues) |-> issues[i].message]))>>))

\* error.format() of a failed ValidationResult: the closure stored in it
ErrorFormat(error, fn) ==
  CASE error.format.f = "formatError" ->
         [raised |-> FALSE, fn |-> fn,
          value |-> formatError(error.format.path, error.format.message)]
    [] error.format.f = "formatMultipleErrors(path, issues)" ->
         [raised |-> FALSE, fn |-> fn,
          value |-> formatMultipleErrorsAt(error.format.path, error.issues)]
    [] error.format.f = "formatMultipleErrors(issues)" ->
         formatMultipleErrors(error.issues, fn)
    [] OTHER ->
         [raised |-> FALSE, fn |-> fn,
          value |-> Obj(<<Fld("_errors", Arr(<<error.format.message>>))>>)]

---------------------------------------------------------------------------
(* The values the operations are called with *)

sEmpty == Str(<<>>)
sA == Str(<<"a">>)
sAB == Str(<<"A", "B">>)
sMail == Str(<<"a", "@", "b", ".", "c">>)
sUrl == Str(<<"c", ":", "d">>)
sUuid ==
  Str(<<"5", "5", "0", "e", "8", "4", "0", "0", "-", "e", "2", "9", "b", "-",
        "4", "1", "d", "4", "-", "a", "7", "1", "6", "-",
        "4", "4", "6", "6", "5", "5", "4", "4", "0", "0", "0", "0">>)

\* the arguments of min, max and length
ArgNumbers == {Num(i) : i \in 1..MaxArg}

\* the values validated
Inputs ==
  {Undef, Null, NaN, Bool(TRUE), Num(0 - 1), Num(0), Num2(3), Num(3),
   sEmpty, sA, sAB, sMail, sUrl, sUuid,
   Arr(<<>>), Arr(<<sA>>), Arr(<<Num(1), sA, Bool(TRUE)>>), Arr(<<sA, sAB, sA>>),
   Obj(<<>>), Obj(<<Fld("a", sA)>>), Obj(<<Fld("a", Num(1)), Fld("b", Bool(TRUE))>>),
   Obj(<<Fld("b", sAB), Fld("a", sA)>>),
   Obj(<<Fld("a", sA), Fld("constructor", Num(1))>>),
   Obj(<<Fld("constructor", sA), Fld("b", Num(1))>>)}

Literals == {sA}
EnumValues == {<<sA, sAB>>}
DefaultValues == {Num(1)}
Messages == {"Invalid value", "Too short"}
\* the key lists of the shapes given to v.object
ShapeKeys == {<<>>, <<"a">>, <<"a", "b">>, <<"constructor">>}

Refs == 1..Len(heap)

\* the shapes over the schemas allocated so far
Shapes ==
  UNION {{[i \in 1..Len(ks) |-> [k |-> ks[i], ref |-> f[i]]] :
            f \in [1..Len(ks) -> Refs]} : ks \in ShapeKeys}

\* the key lists given to pick and omit
KeyLists == {<<"a">>, <<"b">>, <<"b", "a">>, <<"constructor">>}

\* the lists of alternatives given to v.union
Alternatives == {<<a>> : a \in Refs} \cup {<<a, b>> : a \in Refs, b \in Refs}

---------------------------------------------------------------------------
(* The state: heap[r] is the schema object with reference r, last is the   *)
(* operation called last with what it returned, nbuild counts the calls of *)
(* in-place builders.  chain is a history variable: chain[r] lists the     *)
(* builder calls made on object r, in order, each with its argument.       *)

\* the body parser not called yet
NotParsed == [op |-> "none"]

\* handleRequest not called yet
NoRequest == [method |-> "none"]

\* no QeraValidationError constructed yet
NoError == [isError |-> FALSE]
\* format() not called on the error held
NotFormatted == [called |-> FALSE]
\* the application has not set up its rate limiter yet
NoLimiter == [configured |-> FALSE]

Init ==
  /\ heap = <<>>
  /\ last = [op |-> "none"]
  /\ nbuild = 0
  /\ chain = <<>>
  /\ exception = NoError
  /\ tree = NotFormatted
  /\ functions = NoMembers
  /\ nformat = 0
  /\ middlewares = <<>>
  /\ handled = NoRequest
  /\ form = NotParsed
  /\ limiter = NoLimiter
  /\ now = 1
  /\ served = <<>>

\* new C(...): the object is allocated and its reference returned
New(op, o) ==
  /\ Len(heap) + nbuild < MaxCalls
  /\ heap' = Append(heap, o)
  /\ last' = [op |-> op, ret |-> Len(heap) + 1]
  /\ chain' = Append(chain, <<>>)
  /\ UNCHANGED nbuild

\* a builder that assigns fields of `this` and returns `this`
Mutate(op, arg, r, o) ==
  /\ Len(heap) + nbuild < MaxCalls
  /\ heap' = [heap EXCEPT ![r] = o]
  /\ last' = [op |-> op, ret |-> r]
  /\ nbuild' = nbuild + 1
  /\ chain' = [chain EXCEPT ![r] = Append(@, [op |-> op, arg |-> arg])]

IsA(r, kind) == heap[r].kind = kind

(* the factory v *)

v_string ==
  New("v.string", [kind |-> "string", _min |-> Undef, _max |-> Undef,
                   _pattern |-> Undef, _email |-> FALSE, _url |-> FALSE,
                   _uuid |-> FALSE])

v_number ==
  New("v.number", [kind |-> "number", _min |-> Undef, _max |-> Undef, _int |-> FALSE,
                   _positive |-> FALSE, _negative |-> FALSE, _nonnegative |-> FALSE])

v_boolean == New("v.boolean", [kind |-> "boolean"])

\* element 0: v.array(undefined), which the constructor accepts
v_array(element) ==
  New("v.array", [kind |-> "array", _min |-> Undef, _max |-> Undef,
                  element |-> element])

v_object(shape) ==
  New("v.object", [kind |-> "object", _strict |-> FALSE, _passthrough |-> FALSE,
                   shape |-> shape])

v_union(schemas) == New("v.union", [kind |-> "union", schemas |-> schemas])

v_literal(value) == New("v.literal", [kind |-> "literal", value |-> value])

v_enum(values) == New("v.enum", [kind |-> "enum", values |-> values])

v_any == New("v.any", [kind |-> "any"])

v_unknown == New("v.unknown", [kind |-> "unknown"])

v_void == New("v.void", [kind |-> "void"])

v_null == New("v.null", [kind |-> "null"])

v_undefined == New("v.undefined", [kind |-> "undefined"])

(* the wrappers of QeraSchema *)

\* an optional() that wraps the wrapper itself
optional_self(r) ==
  New("optional", [kind |-> "optional", innerSchema |-> Len(heap) + 1])

optional(r) == New("optional", [kind |-> "optional", innerSchema |-> r])

nullable(r) == New("nullable", [kind |-> "nullable", innerSchema |-> r])

default(r, defaultValue) ==
  New("default", [kind |-> "default", innerSchema |-> r,
                  defaultValue |-> defaultValue])

refine(r, predicate, message) ==
  New("refine", [kind |-> "refinement", innerSchema |-> r, predicate |-> predicate,
                 message |-> message])

transform(r, transformer) ==
  New("transform", [kind |-> "transform", innerSchema |-> r,
                    transformer |-> transformer])

(* the builders of QeraStringSchema *)

QeraStringSchema_min(r, length) ==
  IsA(r, "string") /\ Mutate("min", length, r, [heap[r] EXCEPT !._min = length])

QeraStringSchema_max(r, length) ==
  IsA(r, "string") /\ Mutate("max", length, r, [heap[r] EXCEPT !._max = length])

QeraStringSchema_length(r, length) ==
  IsA(r, "string")
  /\ Mutate("length", length, r, [heap[r] EXCEPT !._min = length, !._max = length])

QeraStringSchema_regex(r, pattern) ==
  IsA(r, "string") /\ Mutate("regex", pattern, r, [heap[r] EXCEPT !._pattern = pattern])

QeraStringSchema_email(r) ==
  IsA(r, "string") /\ Mutate("email", Undef, r, [heap[r] EXCEPT !._email = TRUE])

QeraStringSchema_url(r) ==
  IsA(r, "string") /\ Mutate("url", Undef, r, [heap[r] EXCEPT !._url = TRUE])

QeraStringSchema_uuid(r) ==
  IsA(r, "string") /\ Mutate("uuid", Undef, r, [heap[r] EXCEPT !._uuid = TRUE])

(* the builders of QeraNumberSchema *)

QeraNumberSchema_min(r, value) ==
  IsA(r, "number") /\ Mutate("min", value, r, [heap[r] EXCEPT !._min = value])

QeraNumberSchema_max(r, value) ==
  IsA(r, "number") /\ Mutate("max", value, r, [heap[r] EXCEPT !._max = value])

QeraNumberSchema_int(r) ==
  IsA(r, "number") /\ Mutate("int", Undef, r, [heap[r] EXCEPT !._int = TRUE])

QeraNumberSchema_positive(r) ==
  IsA(r, "number") /\ Mutate("positive", Undef, r, [heap[r] EXCEPT !._positive = TRUE])

QeraNumberSchema_negative(r) ==
  IsA(r, "number") /\ Mutate("negative", Undef, r, [heap[r] EXCEPT !._negative = TRUE])

QeraNumberSchema_nonnegative(r) ==
  IsA(r, "number")
  /\ Mutate("nonnegative", Undef, r, [heap[r] EXCEPT !._nonnegative = TRUE])

(* the builders of QeraArraySchema *)

QeraArraySchema_min(r, length) ==
  IsA(r, "array") /\ Mutate("min", length, r, [heap[r] EXCEPT !._min = length])

QeraArraySchema_max(r, length) ==
  IsA(r, "array") /\ Mutate("max", length, r, [heap[r] EXCEPT !._max = length])

QeraArraySchema_length(r, length) ==
  IsA(r, "array")
  /\ Mutate("length", length, r, [heap[r] EXCEPT !._min = length, !._max = length])

QeraArraySchema_nonempty(r) ==
  IsA(r, "array") /\ Mutate("nonempty", Undef, r, [heap[r] EXCEPT !._min = Num(1)])

(* the builders of QeraObjectSchema *)

QeraObjectSchema_strict(r) ==
  IsA(r, "object") /\ Mutate("strict", Undef, r, [heap[r] EXCEPT !._strict = TRUE])

QeraObjectSchema_passthrough(r) ==
  IsA(r, "object")
  /\ Mutate("passthrough", Undef, r, [heap[r] EXCEPT !._passthrough = TRUE])

(* the derivations of QeraObjectSchema: each builds a new shape and        *)
(* allocates a new object schema for it                                   *)

\* the objects one call allocates, in order; the last one is returned
Allocate(op, r, arg, objects) ==
  /\ Len(heap) + nbuild < MaxCalls
  /\ heap' = heap \o objects
  /\ last' = [op |-> op, ret |-> Len(heap) + Len(objects), recv |-> r, arg |-> arg]
  /\ chain' = chain \o [i \in 1..Len(objects) |-> <<>>]
  /\ UNCHANGED nbuild

\* new QeraObjectSchema(newShape)
ObjectOf(newShape) ==
  [kind |-> "object", _strict |-> FALSE, _passthrough |-> FALSE, shape |-> newShape]

\* the entries of a shape whose key satisfies keep, in the shape's order
RECURSIVE FilterShape(_, _)
FilterShape(shape, keep) ==
  IF shape = <<>> THEN <<>>
  ELSE (IF Head(shape).k \in keep THEN <<Head(shape)>> ELSE <<>>)
       \o FilterShape(Tail(shape), keep)

\* this.shape[key] of a declared key
ShapeRef(shape, key) == shape[CHOOSE i \in 1..Len(shape) : shape[i].k = key].ref

\* newShape[key] = schema: an own key keeps its place, a new key is appended
SetShape(shape, key, ref) ==
  IF \E i \in 1..Len(shape) : shape[i].k = key
  THEN [i \in 1..Len(shape) |-> IF shape[i].k = key THEN [k |-> key, ref |-> ref]
                                ELSE shape[i]]
  ELSE Append(shape, [k |-> key, ref |-> ref])

RECURSIVE AssignShape(_, _)
\* the assignments newShape[key] = schema for the entries given, in order
AssignShape(shape, entries) ==
  IF entries = <<>> THEN shape
  ELSE AssignShape(SetShape(shape, Head(entries).k, Head(entries).ref), Tail(entries))

\* each field schema's optional() allocates a wrapper, then the new object
QeraObjectSchema_partial(r) ==
  /\ IsA(r, "object")
  /\ LET shape == heap[r].shape
         wrappers == [i \in 1..Len(shape) |->
                        [kind |-> "optional", innerSchema |-> shape[i].ref]]
         newShape == [i \in 1..Len(shape) |->
                        [k |-> shape[i].k, ref |-> Len(heap) + i]]
     IN Allocate("partial", r, Undef, Append(wrappers, ObjectOf(newShape)))

\* keys: K[] with K extends keyof T, so every key is a declared one
QeraObjectSchema_pick(r, keys) ==
  /\ IsA(r, "object")
  /\ \A i \in 1..Len(keys) : keys[i] \in OwnKeys(heap[r].shape)
  /\ LET picked == [i \in 1..Len(keys) |->
                      [k |-> keys[i], ref |-> ShapeRef(heap[r].shape, keys[i])]]
     IN Allocate("pick", r, keys, <<ObjectOf(AssignShape(<<>>, picked))>>)

\* an omit whose new object takes over the receiver's policy for unknown keys
QeraObjectSchema_omit_inherited(r, keys) ==
  /\ IsA(r, "object")
  /\ LET kept == OwnKeys(heap[r].shape) \ {keys[i] : i \in 1..Len(keys)}
     IN Allocate("omit", r, keys,
                 <<[ObjectOf(FilterShape(heap[r].shape, kept))
                      EXCEPT !._strict = heap[r]._strict,
                             !._passthrough = heap[r]._passthrough]>>)

QeraObjectSchema_omit(r, keys) ==
  /\ IsA(r, "object")
  /\ LET kept == OwnKeys(heap[r].shape) \ {keys[i] : i \in 1..Len(keys)}
     IN Allocate("omit", r, keys, <<ObjectOf(FilterShape(heap[r].shape, kept))>>)

\* { ...this.shape, ...extension }
QeraObjectSchema_extend(r, extension) ==
  /\ IsA(r, "object")
  /\ Allocate("extend", r, extension,
              <<ObjectOf(AssignShape(heap[r].shape, extension))>>)

(* validation *)

Parse(r, data) ==
  /\ last' = [op |-> "parse", ref |-> r, data |-> data, out |-> parse(heap, r, data)]
  /\ UNCHANGED <<heap, nbuild, chain>>

SafeParse(r, data) ==
  /\ last' = [op |-> "safeParse", ref |-> r, data |-> data,
              out |-> safeParse(heap, r, data)]
  /\ UNCHANGED <<heap, nbuild, chain>>

\* A validation leaves the heap as it is, so every step taken after a
\* validation reaches a state that the same step reaches without it: the
\* steps out of a state whose last operation is a validation are left out.
Validated == last.op \in {"parse", "safeParse"}

Factory ==
  \/ v_string
  \/ v_number
  \/ v_boolean
  \/ \E element \in {0} \cup Refs : v_array(element)
  \/ \E shape \in Shapes : v_object(shape)
  \/ \E schemas \in Alternatives : v_union(schemas)
  \/ \E value \in Literals : v_literal(value)
  \/ \E values \in EnumValues : v_enum(values)
  \/ v_any
  \/ v_unknown
  \/ v_void
  \/ v_null
  \/ v_undefined

Wrap ==
  \E r \in Refs :
    \/ optional(r)
    \/ nullable(r)
    \/ \E d \in DefaultValues : default(r, d)
    \/ \E p \in Predicates : \E m \in Messages : refine(r, p, m)
    \/ \E f \in Transformers : transform(r, f)

Build ==
  \E r \in Refs :
    \/ \E n \in ArgNumbers : QeraStringSchema_min(r, n)
    \/ \E n \in ArgNumbers : QeraStringSchema_max(r, n)
    \/ \E n \in ArgNumbers : QeraStringSchema_length(r, n)
    \/ \E re \in Patterns : QeraStringSchema_regex(r, re)
    \/ QeraStringSchema_email(r)
    \/ QeraStringSchema_url(r)
    \/ QeraStringSchema_uuid(r)
    \/ \E n \in ArgNumbers : QeraNumberSchema_min(r, n)
    \/ \E n \in ArgNumbers : QeraNumberSchema_max(r, n)
    \/ QeraNumberSchema_int(r)
    \/ QeraNumberSchema_positive(r)
    \/ QeraNumberSchema_negative(r)
    \/ QeraNumberSchema_nonnegative(r)
    \/ \E n \in ArgNumbers : QeraArraySchema_min(r, n)
    \/ \E n \in ArgNumbers : QeraArraySchema_max(r, n)
    \/ \E n \in ArgNumbers : QeraArraySchema_length(r, n)
    \/ QeraArraySchema_nonempty(r)
    \/ QeraObjectSchema_strict(r)
    \/ QeraObjectSchema_passthrough(r)

Derive ==
  \E r \in Refs :
    \/ QeraObjectSchema_partial(r)
    \/ \E keys \in KeyLists : QeraObjectSchema_pick(r, keys)
    \/ \E keys \in KeyLists : QeraObjectSchema_omit(r, keys)
    \/ \E extension \in Shapes : QeraObjectSchema_extend(r, extension)

Validate ==
  \E r \in Refs : \E data \in Inputs :
    \/ Parse(r, data)
    \/ SafeParse(r, data)

Next ==
  /\ ~Validated
  /\ Factory \/ Wrap \/ Build \/ Derive \/ Validate
  /\ UNCHANGED <<fvars, avars, bvars, rvars>>

Spec == Init /\ [][Next]_vars

---------------------------------------------------------------------------
(* QeraValidationError on its own: an error is constructed from a list of  *)
(* issues and format() is called on it.                                    *)

\* the segments of the issue paths
PathKeys == {"a", "0", "constructor"}
IssuePaths ==
  {<<>>} \cup {<<k>> : k \in PathKeys} \cup {<<k, l>> : k \in PathKeys, l \in PathKeys}
IssueMessages == {"Required", "Invalid value"}
IssueSet == {Issue(path, message, "custom") : path \in IssuePaths, message \in IssueMessages}
IssueLists == UNION {[1..n -> IssueSet] : n \in 0..MaxIssues}

\* new QeraValidationError(issues)
new_QeraValidationError(issues) ==
  /\ nformat < MaxFormats
  /\ exception' = QeraValidationError(issues)
  /\ tree' = NotFormatted
  /\ UNCHANGED <<functions, nformat>>
  /\ UNCHANGED svars

\* exception.format()
Format ==
  /\ exception # NoError
  /\ nformat < MaxFormats
  /\ tree' = QeraValidationError_format(exception.issues, functions)
  /\ functions' = QeraValidationError_format(exception.issues, functions).fn
  /\ nformat' = nformat + 1
  /\ UNCHANGED exception
  /\ UNCHANGED svars

FormatNext ==
  /\ \/ \E issues \in IssueLists : new_QeraValidationError(issues)
     \/ Format
  /\ UNCHANGED <<avars, bvars, rvars>>

FormatSpec == Init /\ [][FormatNext]_vars

---------------------------------------------------------------------------
(* Repeated validations against String schemas.  The RegExp given to       *)
(* regex() is held by reference in _pattern, and _parse calls its test().  *)

s1 == Str(<<"1">>)
sA1 == Str(<<"a", "1">>)
s11 == Str(<<"1", "1">>)
RepeatInputs == {Undef, sA, sAB, s1, sA1, s11}

\* the String schema object after this._pattern.test(data) was evaluated
\* in _parse (line 157; reached for every string once a pattern is set)
Tested(o, data) ==
  IF data.t = "string" /\ Truthy(o._pattern) /\ IsGlobal(o._pattern)
  THEN [o EXCEPT !._pattern.lastIndex = LastIndexAfter(o._pattern, data.s)]
  ELSE o

ParseString(r, data) ==
  /\ IsA(r, "string")
  /\ last' = [op |-> "parse", ref |-> r, data |-> data, out |-> parse(heap, r, data)]
  /\ heap' = [heap EXCEPT ![r] = Tested(heap[r], data)]
  /\ UNCHANGED <<nbuild, chain>>

SafeParseString(r, data) ==
  /\ IsA(r, "string")
  /\ last' = [op |-> "safeParse", ref |-> r, data |-> data,
              out |-> safeParse(heap, r, data)]
  /\ heap' = [heap EXCEPT ![r] = Tested(heap[r], data)]
  /\ UNCHANGED <<nbuild, chain>>

RepeatNext ==
  /\ \/ v_string
     \/ \E r \in Refs : \E re \in Patterns \cup GlobalPatterns :
          QeraStringSchema_regex(r, re)
     \/ \E r \in Refs : \E data \in RepeatInputs : ParseString(r, data)
     \/ \E r \in Refs : \E data \in RepeatInputs : SafeParseString(r, data)
  /\ UNCHANGED <<fvars, avars, bvars, rvars>>

RepeatSpec == Init /\ [][RepeatNext]_vars

---------------------------------------------------------------------------
(* The application core: use() and handleRequest of class Qera.  A request *)
(* is handled by one call of handleRequest; the calls it makes on the      *)
(* uWebSockets.js response `res` are kept in order in `res`, and `trace`   *)
(* lists the middlewares and the route handler as they are entered and the *)
(* calls of next().  User code (middlewares, route handlers) is drawn from *)
(* small sets of behaviours.                                               *)

\* JSON.stringify(data) of a response body
JSON_stringify(data) == [json |-> data]

\* the state of one call of handleRequest: the context's statusCode, the
\* body parsed, the calls made on res, currentMiddlewareIndex; validation
\* is what validating the body gives, kept with the body it is a function
\* of; caught tells that the catch block of handleRequest was entered
NewContext(body) ==
  [statusCode |-> 200, body |-> body, res |-> <<>>, currentMiddlewareIndex |-> 0,
   trace |-> <<>>, validation |-> [success |-> TRUE], caught |-> FALSE]

res_writeStatus(c, status) ==
  [c EXCEPT !.res = Append(@, [m |-> "writeStatus", status |-> status])]
res_writeHeader(c, key, value) ==
  [c EXCEPT !.res = Append(@, [m |-> "writeHeader", key |-> key, value |-> value])]
res_end(c, body) == [c EXCEPT !.res = Append(@, [m |-> "end", body |-> body])]

\* ctx.status(code)
ctx_status(c, code) == res_writeStatus([c EXCEPT !.statusCode = code], ToString(code))

\* ctx.json(data); statusCode is never 0
ctx_json(c, data) ==
  res_end(res_writeHeader(c, "Content-Type", "application/json"), JSON_stringify(data))

\* what a piece of user code or a method of the context does: it returns
\* or it throws, and leaves the call of handleRequest in state c
Done(c) == [c |-> c, thrown |-> FALSE]
Threw(c, exc) == [c |-> c, thrown |-> TRUE, exc |-> exc]

\* the schema a route validates its body with: v.object({a: v.string()})
RouteSchemas ==
  <<[kind |-> "string", _min |-> Undef, _max |-> Undef, _pattern |-> Undef,
     _email |-> FALSE, _url |-> FALSE, _uuid |-> FALSE],
    ObjectOf(<<[k |-> "a", ref |-> 1]>>)>>
RouteSchema == 2

\* a result of safeParse with, on failure, result.error.format()
WithDetails(result) ==
  IF result.success THEN [success |-> TRUE]
  ELSE [success |-> FALSE, details |-> ErrorFormat(result.error, NoMembers)]

\* schema.safeParse(body)
Validation(body) == WithDetails(safeParse(RouteSchemas, RouteSchema, body).value)

\* ctx.validate(schema); c.validation holds Validation(c.body)
ctx_validate(c) ==
  IF ~c.validation.success
  THEN IF c.validation.details.raised
       THEN Threw(ctx_status(c, 400), c.validation.details.exc)
       ELSE Threw(ctx_json(ctx_status(c, 400),
                           [error |-> "Validation error",
                            details |-> c.validation.details.value]),
                  Error("Error", "Validation failed"))
  ELSE Done(c)

\* The route handlers:
\*   respond:       ctx => ctx.json({ message: 'ok' })
\*   throw:         ctx => { throw new Error('boom') }
\*   validate:      ctx => { const data = ctx.validate(schema);
\*                           ctx.json({ message: 'User registered' }) }
\*   validateCatch: ctx => { try { ctx.validate(schema) } catch { return }
\*                           ctx.json({ message: 'User registered' }) }
Handlers == {"respond", "throw", "validate", "validateCatch"}

RouteHandler(handler, c) ==
  CASE handler = "respond" -> Done(ctx_json(c, [message |-> "ok"]))
    [] handler = "throw" -> Threw(c, Error("Error", "boom"))
    [] OTHER ->
         LET validated == ctx_validate(c)
         IN IF validated.thrown
            THEN (IF handler = "validate" THEN validated ELSE Done(validated.c))
            ELSE Done(ctx_json(validated.c, [message |-> "User registered"]))

\* The middlewares:
\*   pass:  async (ctx, next) => { await next() }
\*   stop:  async (ctx, next) => { ctx.status(401).json({ error: 'Unauthorized' }) }
\*   throw: async (ctx, next) => { throw new Error('boom') }
\*   catch: async (ctx, next) => { try { await next() }
\*                                 catch (e) { ctx.status(500).json({ error: 'caught' }) } }
\*   twice: async (ctx, next) => { await next(); await next() }
Middlewares == {"pass", "stop", "throw", "catch", "twice"}

Entered(c, who) == [c EXCEPT !.trace = Append(@, [e |-> "enter", who |-> who])]
EnteredHandler(c) == [c EXCEPT !.trace = Append(@, [e |-> "handler"])]
CalledNext(c, who) == [c EXCEPT !.trace = Append(@, [e |-> "next", who |-> who])]

RECURSIVE next(_, _, _)

\* catch (e) { ctx.status(500).json({ error: 'caught' }) } around `await next()`
Caught(awaited) ==
  IF awaited.thrown
  THEN Done(ctx_json(ctx_status(awaited.c, 500), [error |-> "caught"]))
  ELSE awaited

\* the second `await next()` of middleware i, after the first
Again(awaited, middlewareChain, handler, i) ==
  IF awaited.thrown THEN awaited
  ELSE next(middlewareChain, handler, CalledNext(awaited.c, i))

\* middleware(ctx, next) of the middleware at position i, entered in state c
Middleware(middleware, middlewareChain, handler, i, c) ==
  CASE middleware = "pass" -> next(middlewareChain, handler, CalledNext(c, i))
    [] middleware = "stop" ->
         Done(ctx_json(ctx_status(c, 401), [error |-> "Unauthorized"]))
    [] middleware = "throw" -> Threw(c, Error("Error", "boom"))
    [] middleware = "catch" ->
         Caught(next(middlewareChain, handler, CalledNext(c, i)))
    [] OTHER ->
         Again(next(middlewareChain, handler, CalledNext(c, i)),
               middlewareChain, handler, i)

\* the closure `next` of handleRequest, called in state c
next(middlewareChain, handler, c) ==
  IF c.currentMiddlewareIndex < Len(middlewareChain)
  THEN Middleware(middlewareChain[c.currentMiddlewareIndex + 1], middlewareChain,
                  handler, c.currentMiddlewareIndex + 1,
                  Entered([c EXCEPT !.currentMiddlewareIndex = @ + 1],
                          c.currentMiddlewareIndex + 1))
  ELSE RouteHandler(handler,
                    EnteredHandler([c EXCEPT !.currentMiddlewareIndex = @ + 1]))

\* The outcomes of `await parseBody(req, res, limit)`: a body, or a
\* rejection, which the client's abort causes (res.onAborted) or not.
ParsedBodies ==
  {Obj(<<>>), Obj(<<Fld("a", sA)>>), Obj(<<Fld("a", Num(1))>>)}
Rejections ==
  {[aborted |-> TRUE, exc |-> Error("Error", "Request aborted")],
   [aborted |-> FALSE, exc |-> Error("Error", "Request body too large")]}
BodyOutcomes ==
  {[resolved |-> TRUE, body |-> b] : b \in ParsedBodies}
  \cup {[resolved |-> FALSE, aborted |-> r.aborted, exc |-> r.exc] : r \in Rejections}

Methods == {"get", "post"}

\* a request: its method, the route handler registered for it and, for a
\* method with a body, what parseBody gives
Requests ==
  {[method |-> "get", handler |-> h, parsed |-> [resolved |-> TRUE, body |-> Obj(<<>>)]] :
     h \in Handlers}
  \cup {[method |-> "post", handler |-> h, parsed |-> b] :
          h \in Handlers, b \in BodyOutcomes}

\* res.aborted: no code of the application assigns it
res_aborted == Undef

\* the catch block of handleRequest
HandleError(c) ==
  IF ~Truthy(res_aborted)
  THEN res_end(res_writeHeader(ctx_status(c, 500), "Content-Type", "application/json"),
               JSON_stringify([error |-> "Internal Server Error"]))
  ELSE c

\* the body of the try block of handleRequest
TryBlock(request, chain_, ctx, validation) ==
  IF request.method \in {"post", "put", "patch"} /\ ~request.parsed.resolved
  THEN Threw(ctx, request.parsed.exc)
  ELSE next(chain_, request.handler,
            [ctx EXCEPT !.body = request.parsed.body, !.validation = validation])

\* try { ... } catch (error) { ... }
TryCatch(ran) ==
  IF ran.thrown THEN HandleError([ran.c EXCEPT !.caught = TRUE]) ELSE ran.c

\* handleRequest(req, res, method, handler): the state the call ends in;
\* validation is what validating the parsed body gives
handleRequest(request, chain_, validation) ==
  TryCatch(TryBlock(request, chain_, NewContext(Obj(<<>>)), validation))

\* app.use(middleware)
Qera_use(middleware) ==
  /\ Len(middlewares) < MaxMiddlewares
  /\ middlewares' = Append(middlewares, middleware)
  /\ UNCHANGED handled

\* the request with what handling it did
HandledAs(request, middlewareChain, c) ==
  [method |-> request.method, handler |-> request.handler,
   parsed |-> request.parsed, middlewareChain |-> middlewareChain,
   res |-> c.res, trace |-> c.trace,
   statusCode |-> c.statusCode, caught |-> c.caught]

\* one request handled from its arrival to the end of handleRequest
Qera_handleRequest(request) ==
  /\ handled' =
       HandledAs(request, middlewares,
                 handleRequest(request, middlewares,
                               IF request.parsed.resolved
                               THEN Validation(request.parsed.body)
                               ELSE [success |-> TRUE]))
  /\ UNCHANGED middlewares

AppNext ==
  /\ \/ \E middleware \in Middlewares : Qera_use(middleware)
     \/ \E request \in Requests : Qera_handleRequest(request)
  /\ UNCHANGED <<svars, fvars, bvars, rvars>>

AppSpec == Init /\ [][AppNext]_vars

---------------------------------------------------------------------------
(* The body parser: parseUrlEncoded and parseBufferByContentType.  A text  *)
(* is a sequence of one-character strings; the object parseUrlEncoded      *)
(* builds is a function from its keys to a string or an array of strings.  *)
(* The texts are written with the characters of TextChars, so that no key  *)
(* spells a name Object.prototype defines.                                 *)

TextChars == {"a", "=", "&", "+", "%", "2", "0"}

\* the texts of at most n characters
Texts(n) == UNION {[1..k -> TextChars] : k \in 0..n}

\* the index of the first sep in chars, 0 when there is none
IndexOf(chars, sep) ==
  IF \E i \in 1..Len(chars) : chars[i] = sep
  THEN CHOOSE i \in 1..Len(chars) :
         chars[i] = sep /\ \A j \in 1..(i - 1) : chars[j] # sep
  ELSE 0

RECURSIVE Split(_, _)
\* str.split(sep) for a one-character separator
Split(chars, sep) ==
  IF IndexOf(chars, sep) = 0 THEN <<chars>>
  ELSE <<SubSeq(chars, 1, IndexOf(chars, sep) - 1)>>
       \o Split(SubSeq(chars, IndexOf(chars, sep) + 1, Len(chars)), sep)

\* the character of the escape %xy, for the hexadecimal digits among
\* TextChars: an octet below 0x80 is its ASCII character
Unescaped(x, y) ==
  CASE x = "2" /\ y = "0" -> " "
    [] x = "2" /\ y = "2" -> "\""
    [] x = "2" /\ y = "a" -> "*"
    [] x = "0" /\ y = "0" -> "NUL"
    [] x = "0" /\ y = "2" -> "STX"
    [] OTHER -> "LF"

RECURSIVE decodeURIComponent(_)
\* decodeURIComponent(text): every %XY becomes its character and every
\* other character, '+' included, stays; a '%' not followed by two
\* hexadecimal digits, or an octet from 0x80 on that starts no UTF-8
\* sequence (%a0, %a2, %aa), raises URIError
decodeURIComponent(chars) ==
  IF chars = <<>> THEN Returns(<<>>)
  ELSE IF Head(chars) # "%"
  THEN LET rest == decodeURIComponent(Tail(chars))
       IN IF rest.thrown THEN rest ELSE Returns(<<Head(chars)>> \o rest.value)
  ELSE IF Len(chars) < 3 \/ chars[2] \notin {"0", "2"} \/ chars[3] \notin {"0", "2", "a"}
  THEN Raises(Error("URIError", "URI malformed"))
  ELSE LET rest == decodeURIComponent(SubSeq(chars, 4, Len(chars)))
       IN IF rest.thrown THEN rest
          ELSE Returns(<<Unescaped(chars[2], chars[3])>> \o rest.value)

\* pair.split('=').map(decodeURIComponent): the parts decoded, or the
\* error of the first part that cannot be decoded
DecodedParts(parts) ==
  IF \E i \in 1..Len(parts) : decodeURIComponent(parts[i]).thrown
  THEN Raises(decodeURIComponent(
                parts[CHOOSE i \in 1..Len(parts) :
                        /\ decodeURIComponent(parts[i]).thrown
                        /\ \A j \in 1..(i - 1) : ~decodeURIComponent(parts[j]).thrown]).exc)
  ELSE Returns([i \in 1..Len(parts) |-> decodeURIComponent(parts[i]).value])

\* value || ''
OrEmpty(parts) == IF Len(parts) >= 2 THEN Str(parts[2]) ELSE Str(<<>>)

\* the three branches of the loop body of parseUrlEncoded
Collected(result, key, value) ==
  IF key \notin DOMAIN result THEN (key :> value) @@ result
  ELSE IF result[key].t = "array"
  THEN [result EXCEPT ![key] = Arr(Append(@.items, value))]
  ELSE [result EXCEPT ![key] = Arr(<<@, value>>)]

RECURSIVE PairLoop(_, _, _)
\* the loop over pairs from pair i on
PairLoop(pairs, i, result) ==
  IF i > Len(pairs) THEN Returns(result)
  ELSE IF DecodedParts(Split(pairs[i], "=")).thrown
  THEN DecodedParts(Split(pairs[i], "="))
  ELSE PairLoop(pairs, i + 1,
                Collected(result, DecodedParts(Split(pairs[i], "=")).value[1],
                          OrEmpty(DecodedParts(Split(pairs[i], "=")).value)))

parseUrlEncoded(str) ==
  IF Len(str) = 0 THEN Returns(<<>>)
  ELSE PairLoop(Split(str, "&"), 1, <<>>)

ContentTypes ==
  {"application/x-www-form-urlencoded",
   "Application/X-WWW-Form-Urlencoded; charset=utf-8",
   "text/plain"}

\* contentType.split(';')[0].toLowerCase()
MediaType(contentType) ==
  IF contentType = "text/plain" THEN "text/plain"
  ELSE "application/x-www-form-urlencoded"

\* parseBufferByContentType for the content types of ContentTypes (JSON and
\* multipart bodies are not among them)
parseBufferByContentType(buffer, contentType) ==
  IF Len(buffer) = 0 THEN Returns(<<>>)
  ELSE IF MediaType(contentType) = "application/x-www-form-urlencoded"
  THEN parseUrlEncoded(buffer)
  ELSE Returns(Str(buffer))

ParseUrlEncoded(str) ==
  /\ form' = [op |-> "parseUrlEncoded", str |-> str, out |-> parseUrlEncoded(str)]
  /\ UNCHANGED <<svars, fvars, avars, rvars>>

ParseBufferByContentType(buffer, contentType) ==
  /\ form' = [op |-> "parseBufferByContentType", str |-> buffer,
              contentType |-> contentType,
              out |-> parseBufferByContentType(buffer, contentType)]
  /\ UNCHANGED <<svars, fvars, avars, rvars>>

\* the parsers keep nothing between two calls: a behaviour holds one call
BodyNext ==
  /\ form = NotParsed
  /\ \/ \E str \in Texts(MaxText) : ParseUrlEncoded(str)
     \/ \E buffer \in Texts(MaxText) : \E contentType \in ContentTypes :
          ParseBufferByContentType(buffer, contentType)

BodySpec == Init /\ [][BodyNext]_vars

---------------------------------------------------------------------------
(* The rate limiter: the closure rateLimitMiddleware() returns, with the   *)
(* store it keeps and the periodic cleanup of the store.  A time is a      *)
(* number of milliseconds; an option of the configuration that is absent   *)
(* or 0 is written 0 (both are falsy).                                     *)

\* what rateLimit of the configuration is given as
RateLimits ==
  [max : {0, 1, 2}, windowMs : {0, 2}, statusCode : {0, 503}, headers : BOOLEAN]

\* the values of the header x-forwarded-for, "" when the request has none
Forwarded == {"", "10.0.0.1"}

\* x || d
Or(x, d) == IF x = 0 THEN d ELSE x

\* rateLimit.keyGenerator's default
keyGenerator(forwarded) == IF forwarded = "" THEN "unknown" ELSE forwarded

\* the constants and the empty store of rateLimitMiddleware()
rateLimitMiddleware(rateLimit) ==
  [configured |-> TRUE,
   windowMs |-> Or(rateLimit.windowMs, 60000),
   max |-> Or(rateLimit.max, 100),
   message |-> "Too many requests, please try again later.",
   statusCode |-> Or(rateLimit.statusCode, 429),
   headers |-> rateLimit.headers,
   store |-> <<>>]

\* Math.ceil(ms / 1000)
CeilSeconds(ms) == (ms + 999) \div 1000

\* Math.max(0, n)
Max0(n) == IF n > 0 THEN n ELSE 0

\* a count that goes on in the record of a window that is over
Counted_expired(l, key, t) ==
  IF key \notin DOMAIN l.store
  THEN [count |-> 1, resetTime |-> t + l.windowMs]
  ELSE [l.store[key] EXCEPT !.count = @ + 1]

\* the record of the key after `record.count++`
Counted(l, key, t) ==
  IF key \notin DOMAIN l.store \/ l.store[key].resetTime <= t
  THEN [count |-> 1, resetTime |-> t + l.windowMs]
  ELSE [l.store[key] EXCEPT !.count = @ + 1]

\* the X-RateLimit-* headers set for the record
RateLimitHeaders(l, record) ==
  IF l.headers
  THEN <<[key |-> "X-RateLimit-Limit", value |-> l.max],
         [key |-> "X-RateLimit-Remaining", value |-> Max0(l.max - record.count)],
         [key |-> "X-RateLimit-Reset", value |-> CeilSeconds(record.resetTime)]>>
  ELSE <<>>

\* what the middleware did with a request of the key at time t: the headers
\* set, and either the response sent or the call of next()
Outcome(l, key, t, record) ==
  IF record.count > l.max
  THEN [key |-> key, at |-> t, headers |-> RateLimitHeaders(l, record),
        next |-> FALSE, status |-> l.statusCode, json |-> [error |-> l.message]]
  ELSE [key |-> key, at |-> t, headers |-> RateLimitHeaders(l, record),
        next |-> TRUE]

\* the store without the entries whose window is over at time t
Cleaned(store, t) ==
  [key \in {k \in DOMAIN store : store[k].resetTime > t} |-> store[key]]

\* the application sets up its rate limiter
Qera_rateLimitMiddleware(rateLimit) ==
  /\ limiter = NoLimiter
  /\ limiter' = rateLimitMiddleware(rateLimit)
  /\ UNCHANGED <<now, served>>

\* one request goes through the middleware
RateLimit(forwarded) ==
  /\ limiter # NoLimiter
  /\ Len(served) < MaxServed
  /\ limiter' =
       [limiter EXCEPT !.store =
          (keyGenerator(forwarded) :> Counted(limiter, keyGenerator(forwarded), now)) @@ @]
  /\ served' =
       Append(served, Outcome(limiter, keyGenerator(forwarded), now,
                              Counted(limiter, keyGenerator(forwarded), now)))
  /\ UNCHANGED now

\* the callback of setInterval
Cleanup ==
  /\ limiter # NoLimiter
  /\ limiter' = [limiter EXCEPT !.store = Cleaned(@, now)]
  /\ UNCHANGED <<now, served>>

\* a millisecond passes
Tick ==
  /\ limiter # NoLimiter
  /\ now < MaxNow
  /\ now' = now + 1
  /\ UNCHANGED <<limiter, served>>

RateLimitNext ==
  /\ \/ \E rateLimit \in RateLimits : Qera_rateLimitMiddleware(rateLimit)
     \/ \E forwarded \in Forwarded : RateLimit(forwarded)
     \/ Cleanup
     \/ Tick
  /\ UNCHANGED <<svars, fvars, avars, bvars>>

RateLimitSpec == Init /\ [][RateLimitNext]_vars

---------------------------------------------------------------------------
(* Properties of the validator *)

\* the run of _parse of the validation called last
LastRun == _parse(heap, last.ref, last.data, <<>>)

\* what parse and safeParse give for the schema and value validated last:
\* the outcome recorded for the method called, the other method's outcome
\* on the same heap
LastParse ==
  IF last.op = "parse" THEN last.out ELSE parse(heap, last.ref, last.data)

LastSafeParse ==
  IF last.op = "safeParse" THEN last.out ELSE safeParse(heap, last.ref, last.data)

\* C1: safeParse reports success iff parse returns without raising; the two
\* then return the same data; and when _parse returned a Failure, parse
\* raises a QeraValidationError with exactly the issues safeParse reports.
C1_ParseAgreesWithSafeParse ==
  Validated =>
    LET p == LastParse
        s == LastSafeParse.value
    IN /\ ~LastSafeParse.raised
       /\ s.success <=> ~p.raised
       /\ s.success => p.value = s.data
       /\ (~LastRun.thrown /\ ~LastRun.success) =>
            /\ p.raised
            /\ p.exc.name = "QeraValidationError"
            /\ p.exc.issues = s.error.issues

\* C1 witness: a validation that fails with several issues, which parse
\* raises as a QeraValidationError and safeParse reports
C1_Witness ==
  /\ last.op = "parse"
  /\ last.out.raised
  /\ last.out.exc.isError
  /\ last.out.exc.name = "QeraValidationError"
  /\ Len(last.out.exc.issues) >= 2
  /\ ~LastSafeParse.value.success

\* some user callback threw while the run was made
CallbackThrew(run) == \E i \in 1..Len(run.calls) : run.calls[i].threw

\* the callback of the refine or transform combinator validated last threw:
\* its inner schema accepted the value and the callback, applied to the
\* inner schema's output, raised
OwnCallbackThrew ==
  LET o == heap[last.ref]
      inner == _parse(heap, o.innerSchema, last.data, <<>>)
  IN /\ o.kind \in {"refinement", "transform"}
     /\ ~inner.thrown
     /\ inner.success
     /\ IF o.kind = "refinement"
        THEN ApplyPredicate(o.predicate, inner.data).thrown
        ELSE ApplyTransformer(o.transformer, inner.data).thrown

\* C2: an exception thrown by a refine predicate or a transform mapper is
\* caught at that combinator and becomes a Failure with a single `custom`
\* issue at the current path; it never unwinds out of _parse, parse or
\* safeParse as the thrown exception.
C2_CallbackExceptionsBecomeCustomIssues ==
  Validated =>
    /\ CallbackThrew(LastRun) =>
         /\ ~LastRun.thrown
         /\ ~LastSafeParse.raised
         /\ LastParse.raised =>
              LastParse.exc.isError /\ LastParse.exc.name = "QeraValidationError"
    /\ OwnCallbackThrew =>
         /\ ~LastRun.success
         /\ Len(LastRun.issues) = 1
         /\ LastRun.issues[1].code = "custom"
         /\ LastRun.issues[1].path = <<>>

\* C3: a constraint-adding builder call never changes the validation result,
\* for any input, of any schema that existed before the call (the receiver
\* and every schema that embeds it).
C3_BuildersLeaveExistingSchemasAlone ==
  [][nbuild' = nbuild + 1 =>
       \A r \in 1..Len(heap) : \A x \in Inputs :
         safeParse(heap', r, x) = safeParse(heap, r, x)]_vars

\* twice the size a min / max / length constraint measures: the length of a
\* string or an array, the value of a number
Size2(data) ==
  CASE data.t = "string" -> 2 * Len(data.s)
    [] data.t = "array" -> 2 * Len(data.items)
    [] OTHER -> data.n2

\* the value satisfies the constraint that builder call c asked for
Satisfies(c, data) ==
  CASE c.op = "min" -> Size2(data) >= c.arg.n2
    [] c.op = "max" -> Size2(data) <= c.arg.n2
    [] c.op = "length" -> Size2(data) = c.arg.n2
    [] c.op = "nonempty" -> Size2(data) >= 2
    [] c.op = "regex" -> RegexTest(c.arg, data.s)
    [] c.op = "email" -> isEmail(data.s)
    [] c.op = "url" -> isUrl(data.s)
    [] c.op = "uuid" -> isUuid(data.s)
    [] c.op = "int" -> data.n2 % 2 = 0
    [] c.op = "positive" -> data.n2 > 0
    [] c.op = "negative" -> data.n2 < 0
    [] OTHER -> data.n2 >= 0

\* C4: the constraints of successive builder calls on one schema are AND-ed:
\* a value the schema accepts satisfies the constraint of every builder call
\* made on it, whatever calls followed.
C4_ChainedConstraintsAreConjoined ==
  (/\ Validated
   /\ heap[last.ref].kind \in {"string", "number", "array"}
   /\ ~LastParse.raised) =>
    \A i \in 1..Len(chain[last.ref]) : Satisfies(chain[last.ref][i], last.data)

\* C5 as stated: safeParse never raises, and whenever an exception was
\* thrown while _parse ran (by a user callback or by a malformed schema
\* graph) the result is a failure with exactly one issue, of code
\* `unknown_error`, at the root path.
C5_EveryExceptionIsUnknownError ==
  last.op = "safeParse" =>
    /\ ~last.out.raised
    /\ (LastRun.thrown \/ CallbackThrew(LastRun)) =>
         /\ ~last.out.value.success
         /\ Len(last.out.value.error.issues) = 1
         /\ last.out.value.error.issues[1].code = "unknown_error"
         /\ last.out.value.error.issues[1].path = <<>>

\* C5 amended: safeParse never raises; an exception that _parse does not
\* catch itself gives a failure with exactly one issue, of code
\* `unknown_error`, at the root path, whose message is the exception's (or
\* "Unknown error" for a thrown value that is not an Error); when _parse
\* returns, safeParse returns its result as it is.
C5_UncaughtExceptionIsUnknownError ==
  last.op = "safeParse" =>
    /\ ~last.out.raised
    /\ LastRun.thrown =>
         /\ ~last.out.value.success
         /\ Len(last.out.value.error.issues) = 1
         /\ last.out.value.error.issues[1].code = "unknown_error"
         /\ last.out.value.error.issues[1].path = <<>>
         /\ last.out.value.error.issues[1].message =
              (IF LastRun.exc.isError THEN LastRun.exc.message ELSE "Unknown error")
    /\ ~LastRun.thrown => last.out.value = ResultOf(LastRun)

\* C5 witness: safeParse of a schema nested in an array whose _parse threw
\* out of a user callback
C5_Witness ==
  /\ last.op = "safeParse"
  /\ LastRun.thrown
  /\ CallbackThrew(LastRun)
  /\ heap[last.ref].kind = "array"
  /\ last.out.value.error.issues[1].code = "unknown_error"

\* the constraints configured on a String or Number schema that the value
\* (of the right type) violates
Violated(o, data) ==
  IF o.kind = "string"
  THEN {c \in {"min", "max", "regex", "email", "url", "uuid"} :
          CASE c = "min" -> o._min # Undef /\ 2 * Len(data.s) < o._min.n2
            [] c = "max" -> o._max # Undef /\ 2 * Len(data.s) > o._max.n2
            [] c = "regex" -> o._pattern # Undef /\ ~RegexTest(o._pattern, data.s)
            [] c = "email" -> o._email /\ ~isEmail(data.s)
            [] c = "url" -> o._url /\ ~isUrl(data.s)
            [] OTHER -> o._uuid /\ ~isUuid(data.s)}
  ELSE {c \in {"int", "min", "max", "positive", "negative", "nonnegative"} :
          CASE c = "int" -> o._int /\ data.n2 % 2 # 0
            [] c = "min" -> o._min # Undef /\ data.n2 < o._min.n2
            [] c = "max" -> o._max # Undef /\ data.n2 > o._max.n2
            [] c = "positive" -> o._positive /\ data.n2 <= 0
            [] c = "negative" -> o._negative /\ data.n2 >= 0
            [] OTHER -> o._nonnegative /\ data.n2 < 0}

\* the paths _parse is run at when C6 is checked
C6_Paths == {<<>>, <<"a", "0">>}

\* C6: a String or Number schema gives, on a value of the wrong type (NaN
\* included for Number), a Failure with exactly one issue, of code
\* `invalid_type`; on a value of the right type, Success of the value iff no
\* configured constraint is violated, else a Failure with exactly one issue
\* per violated constraint; every issue is at the current path.
C6_PrimitiveIssuesPerConstraint ==
  (Validated /\ heap[last.ref].kind \in {"string", "number"}) =>
    \A path \in C6_Paths :
      LET o == heap[last.ref]
          run == _parse(heap, last.ref, last.data, path)
          rightType == last.data.t = o.kind
          violated == Violated(o, last.data)
      IN /\ ~run.thrown
         /\ ~rightType =>
              /\ ~run.success
              /\ Len(run.issues) = 1
              /\ run.issues[1].code = "invalid_type"
         /\ rightType =>
              /\ run.success <=> violated = {}
              /\ run.success => run.data = last.data
              /\ ~run.success => Len(run.issues) = Cardinality(violated)
         /\ ~run.success => \A i \in 1..Len(run.issues) : run.issues[i].path = path

\* C6 witness: a string that violates two of the constraints configured
C6_Witness ==
  /\ Validated
  /\ heap[last.ref].kind = "string"
  /\ last.data.t = "string"
  /\ Cardinality(Violated(heap[last.ref], last.data)) = 2
  /\ Len(LastRun.issues) = 2

\* every array schema was given an element schema
WellFormed == \A r \in 1..Len(heap) : heap[r].kind = "array" => heap[r].element # 0

RECURSIVE ElementIssues(_, _, _)
\* the issues of the elements from index i (1-based) on, each parsed on its
\* own at the path of its 0-based index, in index order
ElementIssues(element, items, i) ==
  IF i > Len(items) THEN <<>>
  ELSE LET run == _parse(heap, element, items[i], <<ToString(i - 1)>>)
       IN (IF run.success THEN <<>> ELSE run.issues)
          \o ElementIssues(element, items, i + 1)

\* how many of the issues have the code
CountCode(issues, code) == Cardinality({j \in 1..Len(issues) : issues[j].code = code})

\* C7: an array schema never short-circuits on a sequence: its issues are
\* the violated cardinality issues followed by the issues of every invalid
\* element in index order, each element parsed at the path of its 0-based
\* index; k individually invalid elements give at least k issues, and valid
\* elements in an array longer than max give exactly one too_big issue.
C7_ArrayReportsEveryElement ==
  (/\ Validated
   /\ WellFormed
   /\ heap[last.ref].kind = "array"
   /\ last.data.t = "array") =>
    LET o == heap[last.ref]
        items == last.data.items
        out == LastSafeParse.value
        invalid == {i \in 1..Len(items) :
                      ~safeParse(heap, o.element, items[i]).value.success}
        cardinality == ArrayCardinality(o, Len(items), <<>>)
    IN /\ invalid # {} =>
            /\ ~out.success
            /\ Len(out.error.issues) >= Cardinality(invalid)
       /\ ~LastRun.thrown
       /\ LastRun.success <=> (invalid = {} /\ cardinality = <<>>)
       /\ ~LastRun.success =>
            LastRun.issues = cardinality \o ElementIssues(o.element, items, 1)
       /\ (invalid = {} /\ o._max # Undef /\ 2 * Len(items) > o._max.n2) =>
            /\ ~LastRun.success
            /\ CountCode(LastRun.issues, "too_big") = 1

\* the input field a declared key names: the object's own property, or
\* undefined when the object has none
Given(fields, key) ==
  IF key \in OwnKeys(fields) THEN fields[OwnValue(fields, key)].v ELSE Undef

\* some issue lies at or below the field
IssueUnder(issues, key) ==
  \E j \in 1..Len(issues) : Len(issues[j].path) >= 1 /\ issues[j].path[1] = key

\* C8: an object schema parses every declared field (an absent input field
\* as undefined) at the path of the field name, and its Failure holds the
\* issues of all failing fields: a field that fails on its own has an issue
\* under its path whatever the other fields do, a field that succeeds on
\* its own has none and its parsed value is in the output.
C8_ObjectReportsEveryField ==
  (/\ Validated
   /\ WellFormed
   /\ heap[last.ref].kind = "object"
   /\ last.data.t = "object") =>
    LET o == heap[last.ref]
        out == LastSafeParse.value
    IN \A i \in 1..Len(o.shape) :
         LET key == o.shape[i].k
             field == safeParse(heap, o.shape[i].ref,
                                Given(last.data.fields, key)).value
         IN /\ ~field.success =>
                 /\ ~out.success
                 /\ IssueUnder(out.error.issues, key)
            /\ field.success =>
                 IF out.success
                 THEN Given(out.data.fields, key) = field.data
                 ELSE ~IssueUnder(out.error.issues, key)

\* C9: when every declared field parses successfully, the default policy
\* gives an output with the declared keys only, passthrough() gives the
\* declared keys with their parsed values and every unknown input key with
\* the input's value, and strict() gives for every unknown input key one
\* `unrecognized_keys` issue at the path of the key, and fails.
C9_UnknownKeyPolicies ==
  (/\ Validated
   /\ heap[last.ref].kind = "object"
   /\ last.data.t = "object"
   /\ \A i \in 1..Len(heap[last.ref].shape) :
        LET run == _parse(heap, heap[last.ref].shape[i].ref,
                          GetProp(last.data.fields, heap[last.ref].shape[i].k),
                          <<heap[last.ref].shape[i].k>>)
        IN ~run.thrown /\ run.success) =>
    LET o == heap[last.ref]
        fields == last.data.fields
        declared == OwnKeys(o.shape)
        unknown == OwnKeys(fields) \ declared
    IN /\ ~LastRun.thrown
       /\ (~o._strict /\ ~o._passthrough) =>
            /\ LastRun.success
            /\ OwnKeys(LastRun.data.fields) = declared
       /\ (o._passthrough /\ ~o._strict) =>
            /\ LastRun.success
            /\ OwnKeys(LastRun.data.fields) = declared \cup unknown
            /\ \A k \in unknown :
                 Given(LastRun.data.fields, k) = Given(fields, k)
            /\ \A i \in 1..Len(o.shape) :
                 Given(LastRun.data.fields, o.shape[i].k) =
                   _parse(heap, o.shape[i].ref, GetProp(fields, o.shape[i].k),
                          <<o.shape[i].k>>).data
       /\ o._strict =>
            \A k \in unknown :
              /\ ~LastRun.success
              /\ Cardinality({j \in 1..Len(LastRun.issues) :
                                /\ LastRun.issues[j].code = "unrecognized_keys"
                                /\ LastRun.issues[j].path = <<k>>}) = 1

\* C10: the strict and the passthrough policy are never both in effect on
\* an object schema.
C10_StrictExcludesPassthrough ==
  \A r \in 1..Len(heap) :
    heap[r].kind = "object" => ~(heap[r]._strict /\ heap[r]._passthrough)

\* a path below the root, at which _parse is also run
NestedPath == <<"a", "0">>

RECURSIVE AlternativeCalls(_, _, _, _)
\* the callbacks invoked by the alternatives 1..n, each parsed on its own
AlternativeCalls(schemas, data, path, n) ==
  IF n = 0 THEN <<>>
  ELSE AlternativeCalls(schemas, data, path, n - 1)
       \o _parse(heap, schemas[n], data, path).calls

\* C11: a union returns the Success of the first alternative, in declaration
\* order, that succeeds, and evaluates no later alternative; when every
\* alternative fails it returns a Failure with exactly one issue, of code
\* `invalid_union`, at the union's own path.
C11_UnionFirstSuccessWins ==
  (/\ Validated
   /\ WellFormed
   /\ heap[last.ref].kind = "union") =>
    \A path \in {<<>>, NestedPath} :
      LET schemas == heap[last.ref].schemas
          run == _parse(heap, last.ref, last.data, path)
          accepts(i) == LET a == _parse(heap, schemas[i], last.data, path)
                        IN ~a.thrown /\ a.success
          accepting == {i \in 1..Len(schemas) : accepts(i)}
          first == CHOOSE i \in accepting : \A j \in accepting : i <= j
      IN /\ ~run.thrown
         /\ accepting # {} =>
              /\ run.success
              /\ run.data = _parse(heap, schemas[first], last.data, path).data
              /\ run.calls = AlternativeCalls(schemas, last.data, path, first)
         /\ accepting = {} =>
              /\ ~run.success
              /\ run.issues = <<Issue(path, "Invalid input", "invalid_union")>>

\* C12: a refinement invokes its predicate only after its inner schema (and
\* so every earlier refinement of the chain) succeeded, after the callbacks
\* of the inner schema; a predicate that returns false gives a Failure with
\* exactly one `custom` issue at the current path with the refinement's
\* message; after a failing inner refinement no later predicate is invoked.
C12_RefinementsShortCircuit ==
  (Validated /\ heap[last.ref].kind = "refinement") =>
    \A path \in {<<>>, NestedPath} :
      LET o == heap[last.ref]
          run == _parse(heap, last.ref, last.data, path)
          inner == _parse(heap, o.innerSchema, last.data, path)
      IN IF inner.thrown \/ ~inner.success
         THEN run = inner
         ELSE LET verdict == ApplyPredicate(o.predicate, inner.data)
              IN /\ run.calls = Append(inner.calls, Call(o.predicate, verdict))
                 /\ (~verdict.thrown /\ ~Truthy(verdict.value)) =>
                      /\ ~run.thrown
                      /\ ~run.success
                      /\ run.issues = <<Issue(path, o.message, "custom")>>
                 /\ (~verdict.thrown /\ Truthy(verdict.value)) =>
                      /\ ~run.thrown
                      /\ run.success
                      /\ run.data = inner.data

\* C12 witness: a chain of two refinements with different messages whose
\* first predicate returned false: one predicate was invoked and the issue
\* carries the first refinement's message
C12_Witness ==
  /\ Validated
  /\ heap[last.ref].kind = "refinement"
  /\ heap[heap[last.ref].innerSchema].kind = "refinement"
  /\ heap[heap[last.ref].innerSchema].message # heap[last.ref].message
  /\ ~LastRun.thrown
  /\ ~LastRun.success
  /\ LastRun.calls = <<[fn |-> "nonEmpty", threw |-> FALSE]>>
  /\ LastRun.issues =
       <<Issue(<<>>, heap[heap[last.ref].innerSchema].message, "custom")>>

\* C13: a transform invokes its mapper only when its inner schema succeeded,
\* on the inner schema's parsed value, and returns Success of the mapper's
\* value; when the inner schema fails the mapper is not invoked and the
\* inner issues are returned unchanged; a refinement chained after the
\* transform applies its predicate to the mapped value.
C13_TransformMapsParsedValue ==
  /\ (Validated /\ heap[last.ref].kind = "transform") =>
       \A path \in {<<>>, NestedPath} :
         LET o == heap[last.ref]
             run == _parse(heap, last.ref, last.data, path)
             inner == _parse(heap, o.innerSchema, last.data, path)
         IN IF inner.thrown THEN run = inner
            ELSE IF ~inner.success
            THEN /\ ~run.thrown
                 /\ ~run.success
                 /\ run.issues = inner.issues
                 /\ run.calls = inner.calls
            ELSE LET mapped == ApplyTransformer(o.transformer, inner.data)
                 IN /\ run.calls = Append(inner.calls, Call(o.transformer, mapped))
                    /\ ~mapped.thrown =>
                         /\ ~run.thrown
                         /\ run.success
                         /\ run.data = mapped.value
  /\ (/\ Validated
      /\ heap[last.ref].kind = "refinement"
      /\ heap[heap[last.ref].innerSchema].kind = "transform") =>
       LET o == heap[last.ref]
           t == heap[o.innerSchema]
           source == _parse(heap, t.innerSchema, last.data, <<>>)
           mapped == ApplyTransformer(t.transformer, source.data)
       IN (~source.thrown /\ source.success /\ ~mapped.thrown) =>
            LET verdict == ApplyPredicate(o.predicate, mapped.value)
            IN /\ LastRun.calls[Len(LastRun.calls)] = Call(o.predicate, verdict)
               /\ ~verdict.thrown =>
                    /\ ~LastRun.thrown
                    /\ LastRun.success = Truthy(verdict.value)
                    /\ LastRun.success => LastRun.data = mapped.value

\* C13 witness: a refinement after a transform rejects a string that its
\* predicate accepts, because the predicate is given the mapped value
C13_Witness ==
  /\ Validated
  /\ heap[last.ref].kind = "refinement"
  /\ heap[heap[last.ref].innerSchema].kind = "transform"
  /\ last.data = sAB
  /\ heap[last.ref].predicate = "nonEmpty"
  /\ Truthy(ApplyPredicate(heap[last.ref].predicate, last.data).value)
  /\ LastRun.calls = <<[fn |-> "length", threw |-> FALSE],
                       [fn |-> "nonEmpty", threw |-> FALSE]>>
  /\ ~LastRun.success

\* C14: a default gives, on undefined, Success of its fixed value without
\* invoking the inner schema, and on every other input exactly the inner
\* schema's result.
C14_DefaultBypassesInner ==
  (Validated /\ heap[last.ref].kind = "default") =>
    \A path \in {<<>>, NestedPath} :
      LET o == heap[last.ref]
          run == _parse(heap, last.ref, last.data, path)
      IN IF last.data = Undef
         THEN run = Ok(o.defaultValue, <<>>)
         ELSE run = _parse(heap, o.innerSchema, last.data, path)

\* C14 witness: string().transform(f).default(1) on undefined gives 1,
\* although the inner schema rejects both undefined and 1
C14_Witness ==
  /\ last.op = "parse"
  /\ heap[last.ref].kind = "default"
  /\ heap[heap[last.ref].innerSchema].kind = "transform"
  /\ last.data = Undef
  /\ ~last.out.raised
  /\ last.out.value = Num(1)
  /\ ~_parse(heap, heap[last.ref].innerSchema, Num(1), <<>>).success

\* C15: an optional gives, on undefined, Success of undefined without
\* invoking the inner schema, and on every other input exactly the inner
\* schema's result; S.optional().optional() gives, on every input, the
\* result of S.optional().
C15_OptionalIsIdempotent ==
  (Validated /\ heap[last.ref].kind = "optional") =>
    /\ \A path \in {<<>>, NestedPath} :
         LET o == heap[last.ref]
             run == _parse(heap, last.ref, last.data, path)
         IN IF last.data = Undef
            THEN run = Ok(Undef, <<>>)
            ELSE run = _parse(heap, o.innerSchema, last.data, path)
    /\ heap[heap[last.ref].innerSchema].kind = "optional" =>
         /\ LastRun = _parse(heap, heap[last.ref].innerSchema, last.data, <<>>)
         /\ LastSafeParse = safeParse(heap, heap[last.ref].innerSchema, last.data)

\* C15 witness: S.optional().optional() validated on a value that S rejects
C15_Witness ==
  /\ last.op = "safeParse"
  /\ heap[last.ref].kind = "optional"
  /\ heap[heap[last.ref].innerSchema].kind = "optional"
  /\ last.data # Undef
  /\ ~last.out.value.success

\* C16: a nullable gives Success of null exactly on null and on every other
\* input, undefined included, exactly the inner schema's result; an optional
\* gives on null exactly the inner schema's result.
C16_NullableIndependentOfOptional ==
  /\ (Validated /\ heap[last.ref].kind = "nullable") =>
       \A path \in {<<>>, NestedPath} :
         LET o == heap[last.ref]
             run == _parse(heap, last.ref, last.data, path)
         IN IF last.data = Null
            THEN run = Ok(Null, <<>>)
            ELSE run = _parse(heap, o.innerSchema, last.data, path)
  /\ (Validated /\ heap[last.ref].kind = "optional" /\ last.data = Null) =>
       LastRun = _parse(heap, heap[last.ref].innerSchema, Null, <<>>)

\* C16 witness: string().nullable() rejects undefined
C16_Witness ==
  /\ last.op = "safeParse"
  /\ heap[last.ref].kind = "nullable"
  /\ heap[heap[last.ref].innerSchema].kind = "string"
  /\ last.data = Undef
  /\ ~last.out.value.success
  /\ last.out.value.error.issues[1].code = "invalid_type"

\* the declared keys of a shape, in order
KeysOf(shape) == [i \in 1..Len(shape) |-> shape[i].k]

\* every declared field that the object holds is valid for its field schema
PresentFieldsValid(h, shape, fields) ==
  \A i \in 1..Len(shape) :
    shape[i].k \in OwnKeys(fields) =>
      safeParse(h, shape[i].ref, Given(fields, shape[i].k)).value.success

\* C17: partial, pick, omit and extend return a new object schema and leave
\* the validation results of every existing schema, the receiver included,
\* unchanged; partial wraps every declared field in an optional, so that an
\* object with any subset of the declared fields absent is accepted; pick
\* keeps only the named fields, omit removes exactly the named fields,
\* extend adds the given fields, an extension field overriding the
\* receiver's field of the same name.
C17_DerivedObjectSchemas ==
  [][(last'.op \in {"partial", "pick", "omit", "extend"}) =>
       LET old == heap[last'.recv].shape
           new == heap'[last'.ret].shape
       IN /\ last'.ret > Len(heap)
          /\ heap'[last'.ret].kind = "object"
          /\ \A r \in 1..Len(heap) : \A x \in Inputs :
               safeParse(heap', r, x) = safeParse(heap, r, x)
          /\ last'.op = "partial" =>
               /\ KeysOf(new) = KeysOf(old)
               /\ \A i \in 1..Len(new) :
                    /\ heap'[new[i].ref].kind = "optional"
                    /\ heap'[new[i].ref].innerSchema = old[i].ref
               /\ \A x \in Inputs :
                    (x.t = "object" /\ PresentFieldsValid(heap, old, x.fields)) =>
                      safeParse(heap', last'.ret, x).value.success
          /\ last'.op = "pick" =>
               /\ OwnKeys(new) = {last'.arg[i] : i \in 1..Len(last'.arg)}
               /\ \A i \in 1..Len(new) : new[i].ref = ShapeRef(old, new[i].k)
          /\ last'.op = "omit" =>
               /\ OwnKeys(new) =
                    OwnKeys(old) \ {last'.arg[i] : i \in 1..Len(last'.arg)}
               /\ \A i \in 1..Len(new) : new[i].ref = ShapeRef(old, new[i].k)
          /\ last'.op = "extend" =>
               /\ OwnKeys(new) = OwnKeys(old) \cup OwnKeys(last'.arg)
               /\ \A i \in 1..Len(new) :
                    new[i].ref = IF new[i].k \in OwnKeys(last'.arg)
                                 THEN ShapeRef(last'.arg, new[i].k)
                                 ELSE ShapeRef(old, new[i].k)]_vars

\* C18: every result that _parse or safeParse returns has exactly one
\* variant, consistent with its success flag: success with data and no
\* error, or failure with an error whose issue list is not empty and no
\* data.  (thrown and calls are the model's account of the call, not
\* members of the result.)
C18_ResultVariants ==
  Validated =>
    /\ \A path \in {<<>>, NestedPath} :
         LET run == _parse(heap, last.ref, last.data, path)
         IN ~run.thrown =>
              IF run.success
              THEN DOMAIN run = {"thrown", "calls", "success", "data"}
              ELSE /\ DOMAIN run = {"thrown", "calls", "success", "issues", "format"}
                   /\ Len(run.issues) > 0
    /\ LET out == LastSafeParse.value
       IN IF out.success
          THEN DOMAIN out = {"success", "data"}
          ELSE /\ DOMAIN out = {"success", "error"}
               /\ DOMAIN out.error = {"issues", "format"}
               /\ Len(out.error.issues) > 0

\* C18 witness: a transform passes on the failure of an array, with the
\* issues of two elements
C18_Witness ==
  /\ last.op = "safeParse"
  /\ heap[last.ref].kind = "transform"
  /\ heap[heap[last.ref].innerSchema].kind = "array"
  /\ ~last.out.value.success
  /\ Len(last.out.value.error.issues) = 2
  /\ last.out.calls = <<>>

\* the own member of a tree node, undefined when it has none
OwnMember(node, key) ==
  IF node.t = "object" THEN Given(node.fields, key) ELSE Undef

RECURSIVE ErrorsAt(_, _)
\* the `_errors` member of the node the path addresses from the node given,
\* undefined when there is no such node or it has no such member
ErrorsAt(node, path) ==
  IF path = <<>> THEN OwnMember(node, "_errors")
  ELSE ErrorsAt(OwnMember(node, Head(path)), Tail(path))

\* the messages of the issues at the path, in issue order
MessagesAt(issues, path) ==
  LET at == SelectSeq(issues, LAMBDA issue : issue.path = path)
  IN [i \in 1..Len(at) |-> at[i].message]

\* C19: format() of a QeraValidationError returns, for any list of issues
\* in any order of paths, the tree in which the node at each issue's path
\* has an `_errors` list with the messages of the issues at that path, in
\* issue order (the root's list for the empty path), the list being created
\* when the node exists without one; other nodes have no `_errors`.
C19_FormatBuildsErrorTree ==
  tree # NotFormatted =>
    /\ ~tree.raised
    /\ \A path \in IssuePaths :
         ErrorsAt(tree.value, path) =
           (IF MessagesAt(exception.issues, path) = <<>> THEN Undef
            ELSE Arr(MessagesAt(exception.issues, path)))

\* the tree has, at the issue's path, an `_errors` list with its message
HasMessage(formatted, issue) ==
  LET errors == ErrorsAt(formatted, issue.path)
  IN /\ errors.t = "array"
     /\ \E j \in 1..Len(errors.items) : errors.items[j] = issue.message

\* C20: for every Failure that parse or safeParse produces, format() (of the
\* QeraValidationError raised, and of the error of the result returned)
\* completes without raising and gives a tree that has, at every issue's
\* path, an `_errors` list with the issue's message.
C20_FormatReportsEveryIssue ==
  Validated =>
    /\ (LastParse.raised /\ LastParse.exc.isError
        /\ LastParse.exc.name = "QeraValidationError") =>
         LET formatted == QeraValidationError_format(LastParse.exc.issues, functions)
         IN /\ ~formatted.raised
            /\ \A j \in 1..Len(LastParse.exc.issues) :
                 HasMessage(formatted.value, LastParse.exc.issues[j])
    /\ ~LastSafeParse.value.success =>
         LET error == LastSafeParse.value.error
             formatted == ErrorFormat(error, functions)
         IN /\ ~formatted.raised
            /\ \A j \in 1..Len(error.issues) :
                 HasMessage(formatted.value, error.issues[j])

RECURSIVE Locates(_, _, _, _)
\* p is a location of the value `data` validated by schema r: the value
\* itself, an element of a sequence by an index below its length, or a
\* member of a mapping by a declared field name or by an undeclared key the
\* mapping has
Locates(h, r, data, p) ==
  IF p = <<>> THEN TRUE
  ELSE
    LET o == h[r]
    IN CASE o.kind \in {"optional", "nullable", "default", "refinement", "transform"} ->
              Locates(h, o.innerSchema, data, p)
         [] o.kind = "union" ->
              \E i \in 1..Len(o.schemas) : Locates(h, o.schemas[i], data, p)
         [] o.kind = "array" ->
              /\ data.t = "array"
              /\ o.element # 0
              /\ \E i \in 0..(Len(data.items) - 1) :
                   /\ Head(p) = ToString(i)
                   /\ Locates(h, o.element, data.items[i + 1], Tail(p))
         [] o.kind = "object" ->
              /\ data.t = "object"
              /\ \/ /\ Head(p) \in OwnKeys(o.shape)
                    /\ Locates(h, ShapeRef(o.shape, Head(p)),
                               GetProp(data.fields, Head(p)), Tail(p))
                 \/ /\ Head(p) \notin OwnKeys(o.shape)
                    /\ Head(p) \in OwnKeys(data.fields)
                    /\ Tail(p) = <<>>
         [] OTHER -> FALSE

RECURSIVE RootCodes(_, _, _)
\* the codes of the failures that are about the value `data` itself, not
\* about one of its elements or members, when schema r validates it
RootCodes(h, r, data) ==
  LET o == h[r]
  IN CASE o.kind \in {"optional", "nullable", "default"} ->
            RootCodes(h, o.innerSchema, data)
       [] o.kind \in {"refinement", "transform"} ->
            RootCodes(h, o.innerSchema, data) \cup {"custom"}
       [] o.kind = "union" -> {"invalid_union"}
       [] o.kind = "array" ->
            IF data.t = "array" THEN {"too_small", "too_big"} ELSE {"invalid_type"}
       [] o.kind = "object" ->
            IF data.t = "object" THEN {} ELSE {"invalid_type"}
       [] OTHER -> {"invalid_type", "too_small", "too_big", "invalid_string",
                    "invalid_literal", "invalid_enum_value", "custom"}

\* the last n elements of a sequence
Suffix(s, n) == SubSeq(s, Len(s) - n + 1, Len(s))

\* C21: every issue of S._parse(data, path) has a path that begins with
\* `path`; what follows `path` is a location of the input (declared field
\* names or undeclared keys the mapping has, indices below the length of the
\* sequence), and an issue at `path` itself is about the value itself.
C21_IssuePathsLocateFailures ==
  Validated =>
    \A path \in {<<>>, NestedPath} :
      LET run == _parse(heap, last.ref, last.data, path)
      IN (~run.thrown /\ ~run.success) =>
           \A j \in 1..Len(run.issues) :
             LET at == run.issues[j].path
             IN /\ Len(at) >= Len(path)
                /\ SubSeq(at, 1, Len(path)) = path
                /\ Locates(heap, last.ref, last.data, Suffix(at, Len(at) - Len(path)))
                /\ at = path =>
                     run.issues[j].code \in RootCodes(heap, last.ref, last.data)

\* C21 witness: a strict object schema reports a declared field and an
\* undeclared key of the input, each at its own name
C21_Witness ==
  /\ Validated
  /\ heap[last.ref].kind = "object"
  /\ heap[last.ref]._strict
  /\ last.data = Obj(<<Fld("a", Num(1)), Fld("b", Bool(TRUE))>>)
  /\ ~LastRun.thrown
  /\ ~LastRun.success
  /\ Len(LastRun.issues) = 2
  /\ LastRun.issues[1].path = <<"a">>
  /\ LastRun.issues[2].path = <<"b">>
  /\ LastRun.issues[2].code = "unrecognized_keys"

\* the schema graph as the construction calls left it: every RegExp as its
\* literal created it
Constructed(h) ==
  [r \in 1..Len(h) |->
     IF h[r].kind = "string" /\ Truthy(h[r]._pattern) /\ IsGlobal(h[r]._pattern)
     THEN [h[r] EXCEPT !._pattern.lastIndex = 0]
     ELSE h[r]]

\* C22: validations never modify the schema graph, and each validation of
\* a sequence of validations against one schema returns what the same
\* validation returns when it is run alone on the schema as constructed.
C22_ValidationsShareNoState ==
  /\ heap = Constructed(heap)
  /\ Validated =>
       last.out = (IF last.op = "parse"
                   THEN parse(Constructed(heap), last.ref, last.data)
                   ELSE safeParse(Constructed(heap), last.ref, last.data))

\* the schemas a schema object refers to
Children(o) ==
  CASE o.kind \in {"optional", "nullable", "default", "refinement", "transform"} ->
         {o.innerSchema}
    [] o.kind = "array" -> {o.element} \ {0}
    [] o.kind = "object" -> {o.shape[i].ref : i \in 1..Len(o.shape)}
    [] o.kind = "union" -> {o.schemas[i] : i \in 1..Len(o.schemas)}
    [] OTHER -> {}

MaxOf(S) == IF S = {} THEN 0 ELSE CHOOSE x \in S : \A y \in S : y <= x

RECURSIVE SchemaDepth(_, _)
\* the nesting depth of schema r
SchemaDepth(h, r) == 1 + MaxOf({SchemaDepth(h, c) : c \in Children(h[r])})

RECURSIVE ParseDepth(_, _, _)
\* the depth of the nested _parse calls that _parse of schema r makes on
\* `data`: a loop over elements, fields or alternatives ends at the first
\* call that throws, a union's loop also at the first that succeeds
ParseDepth(h, r, data) ==
  LET o == h[r]
      Run(c, value) == _parse(h, c, value, <<>>)
  IN CASE o.kind = "optional" ->
            IF data = Undef THEN 1 ELSE 1 + ParseDepth(h, o.innerSchema, data)
       [] o.kind = "nullable" ->
            IF data = Null THEN 1 ELSE 1 + ParseDepth(h, o.innerSchema, data)
       [] o.kind = "default" ->
            IF data = Undef THEN 1 ELSE 1 + ParseDepth(h, o.innerSchema, data)
       [] o.kind \in {"refinement", "transform"} ->
            1 + ParseDepth(h, o.innerSchema, data)
       [] o.kind = "array" ->
            IF data.t # "array" \/ o.element = 0 THEN 1
            ELSE 1 + MaxOf({ParseDepth(h, o.element, data.items[i]) :
                              i \in {i \in 1..Len(data.items) :
                                       \A j \in 1..(i - 1) :
                                         ~Run(o.element, data.items[j]).thrown}})
       [] o.kind = "object" ->
            IF data.t # "object" THEN 1
            ELSE 1 + MaxOf({ParseDepth(h, o.shape[i].ref,
                                       GetProp(data.fields, o.shape[i].k)) :
                              i \in {i \in 1..Len(o.shape) :
                                       \A j \in 1..(i - 1) :
                                         ~Run(o.shape[j].ref,
                                              GetProp(data.fields, o.shape[j].k)).thrown}})
       [] o.kind = "union" ->
            1 + MaxOf({ParseDepth(h, o.schemas[i], data) :
                         i \in {i \in 1..Len(o.schemas) :
                                  \A j \in 1..(i - 1) :
                                    /\ ~Run(o.schemas[j], data).thrown
                                    /\ ~Run(o.schemas[j], data).success}})
       [] OTHER -> 1

\* C23: the schemas made by factory, wrapper, builder and derivation calls
\* form an acyclic graph (every schema refers only to schemas made before
\* it), and _parse terminates with its nested calls no deeper than the
\* nesting of the schema.
C23_SchemasAcyclicParseBounded ==
  /\ \A r \in Refs : Children(heap[r]) \subseteq 1..(r - 1)
  /\ Validated =>
       /\ LastRun.thrown \in BOOLEAN
       /\ ParseDepth(heap, last.ref, last.data) <= SchemaDepth(heap, last.ref)

\* C23 witness: a validation whose nested calls go three schemas deep
C23_Witness ==
  /\ Validated
  /\ heap[last.ref].kind = "array"
  /\ last.data.t = "array"
  /\ SchemaDepth(heap, last.ref) = 3
  /\ ParseDepth(heap, last.ref, last.data) = 3

---------------------------------------------------------------------------
(* Properties of the application core *)

\* a request was handled
Handled == handled.method # "none"

\* the calls of method m made on the response, in order
ResCalls(m) == SelectSeq(handled.res, LAMBDA call : call.m = m)

\* the number of times the route handler was entered
HandlerRuns ==
  Cardinality({i \in 1..Len(handled.trace) :
                 handled.trace[i].e = "handler"})

\* the route handler called ctx.validate(schema) and the body failed it
ValidationFailed ==
  /\ Handled
  /\ handled.handler \in {"validate", "validateCatch"}
  /\ HandlerRuns > 0
  /\ ~safeParse(RouteSchemas, RouteSchema, handled.parsed.body).value.success

ClientErrors == {ToString(n) : n \in 400..499}

\* C24: when ctx.validate(schema) fails in a route handler, the request is
\* answered with exactly one response, a 400-class status with the
\* formatted issue tree in its body: one status is written and the response
\* is ended once, whether or not the handler catches what validate throws.
C24_ValidationFailureAnsweredOnce ==
  ValidationFailed =>
    LET error == safeParse(RouteSchemas, RouteSchema, handled.parsed.body).value.error
    IN /\ Len(ResCalls("writeStatus")) = 1
       /\ ResCalls("writeStatus")[1].status \in ClientErrors
       /\ Len(ResCalls("end")) = 1
       /\ ResCalls("end")[1].body =
            JSON_stringify([error |-> "Validation error",
                            details |-> ErrorFormat(error, NoMembers).value])

\* the client aborted the request while handleRequest awaited its body
ClientAborted == ~handled.parsed.resolved /\ handled.parsed.aborted

\* C25: when a route handler or a middleware throws and no middleware
\* catches it, so that the error reaches handleRequest, the request is
\* answered with status 500 and a JSON body with an `error` property: that
\* status and that body are the response's only status and only body; on a
\* response the client aborted nothing is written.
C25_UncaughtErrorsAnswered500 ==
  (Handled /\ handled.caught) =>
    IF ClientAborted THEN handled.res = <<>>
    ELSE /\ Len(ResCalls("writeStatus")) = 1
         /\ ResCalls("writeStatus")[1].status = "500"
         /\ Len(ResCalls("end")) = 1
         /\ "error" \in DOMAIN ResCalls("end")[1].body.json
         /\ \E i \in 1..Len(handled.res) :
              handled.res[i] = [m |-> "writeHeader", key |-> "Content-Type",
                                value |-> "application/json"]

---------------------------------------------------------------------------
(* Properties of the body parser *)

\* a form-encoded text decoded: '+' is a space, %XY its character
FormDecoded(chars) ==
  decodeURIComponent([i \in 1..Len(chars) |->
                        IF chars[i] = "+" THEN " " ELSE chars[i]]).value

\* the pairs of a form-encoded text
FormPairs(str) == IF str = <<>> THEN <<>> ELSE Split(str, "&")

FormKey(pair) ==
  FormDecoded(IF IndexOf(pair, "=") = 0 THEN pair
              ELSE SubSeq(pair, 1, IndexOf(pair, "=") - 1))

FormValue(pair) ==
  FormDecoded(IF IndexOf(pair, "=") = 0 THEN <<>>
              ELSE SubSeq(pair, IndexOf(pair, "=") + 1, Len(pair)))

\* every escape of the text is %XY of a character, and no pair has a
\* second '='
WellEncoded(str) ==
  /\ ~decodeURIComponent(str).thrown
  /\ \A i \in 1..Len(FormPairs(str)) : Len(Split(FormPairs(str)[i], "=")) <= 2

\* what a form-encoded text stands for: each key with its value, or with
\* the array of its values in order of appearance when it is repeated
FormOf(str) ==
  [key \in {FormKey(FormPairs(str)[i]) : i \in 1..Len(FormPairs(str))} |->
     LET mine == SelectSeq(FormPairs(str), LAMBDA pair : FormKey(pair) = key)
     IN IF Len(mine) = 1 THEN Str(FormValue(mine[1]))
        ELSE Arr([j \in 1..Len(mine) |-> Str(FormValue(mine[j]))])]

\* the body parser was given a form-encoded text
ParsedForm ==
  /\ form.op # "none"
  /\ form.op = "parseBufferByContentType" =>
       MediaType(form.contentType) = "application/x-www-form-urlencoded"

\* C26: parseUrlEncoded, and parseBufferByContentType for a form-encoded
\* body, decode every key and value ('+' to a space, %XY to its character),
\* collect the values of a repeated key into an array in order of
\* appearance, and map a key without a value to the empty string.
C26_FormDecoding ==
  (ParsedForm /\ WellEncoded(form.str)) =>
    /\ ~form.out.thrown
    /\ form.out.value = FormOf(form.str)


---------------------------------------------------------------------------
(* The formatter of each schema class against the shared formatter *)

\* C27: for every schema and input on which safeParse fails, the format()
\* stored in the result's error and format() of a QeraValidationError made
\* from the result's issues have the same outcome: the same tree returned
\* (or the same exception raised), the same members left on the function
\* objects.
C27_SchemaFormattersAgree ==
  (Validated /\ ~LastSafeParse.value.success) =>
    ErrorFormat(LastSafeParse.value.error, functions) =
      QeraValidationError_format(LastSafeParse.value.error.issues, functions)

\* a String schema failed two constraints: its own formatter joins the two
\* messages under the path, the shared one places them one by one
C27_Witness ==
  /\ last.op = "safeParse"
  /\ ~last.out.value.success
  /\ last.out.value.error.format.f = "formatMultipleErrors(path, issues)"
  /\ Len(last.out.value.error.issues) = 2
  /\ ~ErrorFormat(last.out.value.error, functions).raised
  /\ Len(ErrorFormat(last.out.value.error, functions).value.fields[1].v.items) = 2


---------------------------------------------------------------------------
(* The policy for unknown keys of a derived object schema *)

\* the object schema strips unknown keys on every object of Inputs: no
\* unknown key is reported and none is kept in the output
Strips(h, r) ==
  \A x \in Inputs :
    LET run == _parse(h, r, x, <<>>)
    IN (x.t = "object" /\ ~run.thrown) =>
         IF run.success
         THEN OwnKeys(run.data.fields) \subseteq OwnKeys(h[r].shape)
         ELSE \A j \in 1..Len(run.issues) : run.issues[j].code # "unrecognized_keys"

\* C28: the object schema that partial(), pick(), omit() or extend() returns
\* has the default strip policy whatever the policy of the receiver, and a
\* strict() or passthrough() call on a schema leaves every schema built
\* before it, so the receiver it was derived from, as it was.
C28_DerivedSchemasStrip ==
  [][/\ (last'.op \in {"partial", "pick", "omit", "extend"}) =>
          /\ ~heap'[last'.ret]._strict
          /\ ~heap'[last'.ret]._passthrough
          /\ Strips(heap', last'.ret)
          /\ heap'[last'.recv] = heap[last'.recv]
     /\ (last'.op \in {"strict", "passthrough"}) =>
          \A r \in 1..(last'.ret - 1) :
            /\ heap'[r] = heap[r]
            /\ \A x \in Inputs : safeParse(heap', r, x) = safeParse(heap, r, x)]_vars

\* omit() on a strict receiver gave a schema that accepts an object with an
\* unknown key, which the receiver rejects, and leaves the key out
C28_Witness ==
  /\ last.op = "omit"
  /\ heap[last.recv]._strict
  /\ ~heap[last.ret]._strict
  /\ ~safeParse(heap, last.recv, Obj(<<Fld("a", sA)>>)).value.success
  /\ safeParse(heap, last.ret, Obj(<<Fld("a", sA)>>)).value.success
  /\ safeParse(heap, last.ret, Obj(<<Fld("a", sA)>>)).value.data = Obj(<<>>)

---------------------------------------------------------------------------
(* The middleware chain of a request *)

\* the positions of the trace at which middleware k was entered, at which
\* it called next(), and at which the route handler was entered
EntriesOf(k) ==
  {p \in 1..Len(handled.trace) :
     handled.trace[p].e = "enter" /\ handled.trace[p].who = k}

NextCallsOf(k) ==
  {p \in 1..Len(handled.trace) :
     handled.trace[p].e = "next" /\ handled.trace[p].who = k}

HandlerEntries == {p \in 1..Len(handled.trace) : handled.trace[p].e = "handler"}

\* C29: the middlewares registered when the request arrived are entered in
\* registration order, each after the one before it called next(); the
\* route handler is entered at most once, and only after every middleware
\* called next(); when a middleware was entered and did not call next(), no
\* later middleware and not the route handler is entered.
C29_MiddlewareChainInOrder ==
  Handled =>
    LET n == Len(handled.middlewareChain)
    IN /\ \A k \in 1..n : \A p \in EntriesOf(k) :
            /\ \A j \in 1..n : \A q \in EntriesOf(j) : q < p => j < k
            /\ k > 1 => \E q \in NextCallsOf(k - 1) : q < p
       /\ Cardinality(HandlerEntries) <= 1
       /\ \A p \in HandlerEntries : \A k \in 1..n :
            \E q \in NextCallsOf(k) : q < p
       /\ \A k \in 1..n :
            (EntriesOf(k) # {} /\ NextCallsOf(k) = {}) =>
              /\ HandlerEntries = {}
              /\ \A j \in (k + 1)..n : EntriesOf(j) = {}


---------------------------------------------------------------------------
(* Properties of the rate limiter *)

\* the request before request i with the same key, 0 when i is the first
Previous(i) ==
  IF \E j \in 1..(i - 1) : served[j].key = served[i].key
  THEN CHOOSE j \in 1..(i - 1) :
         /\ served[j].key = served[i].key
         /\ \A m \in (j + 1)..(i - 1) : served[m].key # served[i].key
  ELSE 0

RECURSIVE WindowOf(_)
\* the window request i falls in, as the time of the first request of the
\* window, and the number of requests of its key in the window up to i: a
\* window lasts windowMs from its first request
WindowOf(i) ==
  IF Previous(i) = 0
  THEN [start |-> served[i].at, count |-> 1]
  ELSE IF served[i].at >= WindowOf(Previous(i)).start + limiter.windowMs
  THEN [start |-> served[i].at, count |-> 1]
  ELSE [start |-> WindowOf(Previous(i)).start,
        count |-> WindowOf(Previous(i)).count + 1]

\* the requests of the key of request i, in the window of request i, that
\* were passed on to next()
PassedWith(i) ==
  {j \in 1..Len(served) :
     /\ served[j].key = served[i].key
     /\ WindowOf(j).start = WindowOf(i).start
     /\ served[j].next}

\* C30: of the requests of a key in one window (from the first request of
\* the window until windowMs later) the first max are passed on to next()
\* and no more; every further one is answered with the configured status,
\* 429 by default, and not passed on; the first request of the key once
\* the window is over starts a new window, whenever the cleanup ran.
C30_RateLimiterBoundsEachWindow ==
  \A i \in 1..Len(served) :
    /\ Cardinality(PassedWith(i)) <= limiter.max
    /\ served[i].next <=> WindowOf(i).count <= limiter.max
    /\ ~served[i].next => served[i].status = limiter.statusCode

\* with max 1 and the default status: the first request of a key passed,
\* the second was answered 429, and after the window of 2 ms a third of the
\* same key passed
C30_Witness ==
  /\ limiter # NoLimiter
  /\ limiter.max = 1
  /\ limiter.windowMs = 2
  /\ Len(served) = 3
  /\ \A i \in 1..3 : served[i].key = "unknown"
  /\ served[1].next /\ served[1].at = 1
  /\ ~served[2].next /\ served[2].at = 2 /\ served[2].status = 429
  /\ served[3].next /\ served[3].at = 3
  /\ "unknown" \in DOMAIN limiter.store

=============================================================================
